---------------------------- MODULE Spec2Model ----------------------------
(***************************************************************************)
(* Model of the authentication, plan-entitlement and subscription          *)
(* lifecycle core of the Azure Service Tags tracker backend                *)
(* (src/api/subscription_manager.py, src/api/user_manager.py,              *)
(* src/api/auth_utils.py and the HTTP handlers that call them).            *)
(*                                                                         *)
(* Conventions                                                             *)
(*  - a Python str is a sequence of one-character strings, so that         *)
(*    lower() and strip() are computed and not assumed;                    *)
(*  - None / a missing document field is a sentinel of the field's type    *)
(*    (NoToken, NoTime, the empty string <<>>);                            *)
(*  - secrets.token_hex values are fresh values: the n-th value drawn;     *)
(*  - created_at is the clock read when the document is built; updated_at  *)
(*    and the other stamps are written and never read, unsubscribed_at is  *)
(*    kept as the presence of the field;                                   *)
(*  - the clock counts half seconds, so that the truncation of JWT         *)
(*    timestamps to whole seconds is visible.                              *)
(***************************************************************************)
EXTENDS Integers, Sequences, FiniteSets, TLC

VARIABLES
    subs,      \* the 'subscriptions' collection, in insertion order
    users,     \* the 'users' collection, keyed by normalized email
    premium,   \* the 'premium_accounts' collection, keyed by normalized email
    nver,      \* number of verification tokens generated so far
    now,       \* the clock (datetime.utcnow()), in half seconds
    ticks,     \* number of clock advances so far
    procs,     \* the position of each handler instance in the request it serves
    secret,    \* auth_utils.JWT_SECRET ("" when the variable is unset)
    wire,      \* tokens that have been issued and are held by clients
    out        \* the value returned by the last call whose answer is observed

vars == <<subs, users, premium, nver, now, ticks, procs, secret, wire, out>>

-----------------------------------------------------------------------------
(* Bounds of the model *)

MaxRows == 3

MaxVerif == 2

MaxTicks == 2

MaxWire == 2

MaxLinks == 1

-----------------------------------------------------------------------------
(* Python strings: str.lower(), str.strip() *)

LowerChar(c) ==
    CASE c = "A" -> "a"
      [] c = "B" -> "b"
      [] c = "U" -> "u"
      [] OTHER -> c

Lower(s) == [i \in 1..Len(s) |-> LowerChar(s[i])]

IsSpace(c) == c = " "

RECURSIVE LStrip(_)
LStrip(s) ==
    IF s = <<>> THEN s
    ELSE IF IsSpace(Head(s)) THEN LStrip(Tail(s)) ELSE s

RECURSIVE RStrip(_)
RStrip(s) ==
    IF s = <<>> THEN s
    ELSE IF IsSpace(s[Len(s)]) THEN RStrip(SubSeq(s, 1, Len(s) - 1)) ELSE s

Strip(s) == RStrip(LStrip(s))

-----------------------------------------------------------------------------
(* Time *)

TicksPerSecond == 2

VerificationMinutes == 15

Minutes(m) == m * 60 * TicksPerSecond

NoTime == -1

-----------------------------------------------------------------------------
(* Inputs *)

RawEmails == { <<"a">>, <<" ", "A">>, <<"b">> }

NormEmails == { Strip(Lower(e)) : e \in RawEmails }

\* Every request body the claims quantify over.
Payloads ==
    [email : RawEmails, subscriptionType : {"all", "filtered", "weekly"},
     selectedServices : { <<>>, <<"Storage">> }, user_id : { <<>>, <<"p", " ">> }]

\* The decoded bearer token handed to create_subscription; present = FALSE is
\* None (or an empty dict).  plan / plan_status are the snapshot in the token.
NoAuth ==
    [present |-> FALSE, email |-> <<>>, sub |-> <<>>, user_id |-> <<>>,
     plan |-> "free", plan_status |-> "inactive"]

Identity(email, sub, user_id, plan) ==
    [present |-> TRUE, email |-> email, sub |-> sub, user_id |-> user_id,
     plan |-> plan, plan_status |-> IF plan = "premium" THEN "active" ELSE "inactive"]

\* Every identity the claims quantify over.
AuthUsers ==
    {NoAuth}
    \cup { Identity(e, <<"U">>, <<>>, p) :
             e \in {<<"a">>, <<"B", " ">>, <<>>}, p \in {"free", "premium"} }
    \cup { Identity(<<"a">>, <<>>, u, "premium") : u \in {<<>>, <<"v">>} }

Passwords == {"pw1"}

PlanStatuses == {"active", "inactive"}

-----------------------------------------------------------------------------
(* Values generated by secrets.token_hex *)

NoToken == <<"none", 0>>

generate_subscription_id(n) == <<"sub", n>>

generate_unsubscribe_token(n) == <<"unsub", n>>

generate_verification_token(n) == <<"verify", n>>

UnsubscribeTokens == { generate_unsubscribe_token(n) : n \in 1..MaxRows } \cup {NoToken}

VerificationTokens == { generate_verification_token(n) : n \in 1..MaxVerif } \cup {NoToken}

-----------------------------------------------------------------------------
(* Credential store *)

NoHash == <<"nohash", "">>

\* hash_password raises ValueError for a password that is None or empty.
HashRaised == <<"raised", "Password is required">>

\* auth_utils.hash_password: a bcrypt hash determines the password it was
\* made from; the salt is left out.
hash_password(password) ==
    IF password = "" THEN HashRaised ELSE <<"bcrypt", password>>

verify_password(password, hashed) ==
    IF password = "" \/ hashed = NoHash THEN FALSE
    ELSE hashed = <<"bcrypt", password>>

-----------------------------------------------------------------------------
(* User registry *)

NoUser ==
    [exists |-> FALSE, password_hash |-> NoHash, plan |-> "free",
     plan_status |-> "inactive", plan_expires_at |-> NoTime]

NoPremium ==
    [exists |-> FALSE, plan |-> "premium", status |-> "inactive", plan_expires_at |-> NoTime]

DefaultPlan == [plan |-> "free", plan_status |-> "inactive", plan_expires_at |-> NoTime]

\* collection.find_one({"email": ...}) on a collection keyed by email
FindByEmail(coll, email_norm, none) ==
    IF email_norm \in DOMAIN coll THEN coll[email_norm] ELSE none

\* Mutant: the status of the record is not looked at.
premium_is_active_any_status(prem) == prem.exists

\* UserManager.get_plan, line 73: the record is there and its status is active
premium_is_active(prem) == prem.exists /\ prem.status = "active"

\* Mutant: the status of the premium record is not looked at.
get_plan_in_any_status(us, pr, email) ==
    LET email_norm == Lower(Strip(email))
        prem == FindByEmail(pr, email_norm, NoPremium)
        user == FindByEmail(us, email_norm, NoUser)
    IN  IF prem.exists
        THEN [plan |-> prem.plan, plan_status |-> prem.status,
              plan_expires_at |-> prem.plan_expires_at]
        ELSE IF ~user.exists THEN DefaultPlan
        ELSE [plan |-> user.plan, plan_status |-> user.plan_status,
              plan_expires_at |-> user.plan_expires_at]

\* UserManager.get_plan over the collections us (users) and pr (premium_accounts)
get_plan_in(us, pr, email) ==
    LET email_norm == Lower(Strip(email))
        prem == FindByEmail(pr, email_norm, NoPremium)
        user == FindByEmail(us, email_norm, NoUser)
    IN  IF premium_is_active(prem)
        THEN [plan |-> prem.plan, plan_status |-> prem.status,
              plan_expires_at |-> prem.plan_expires_at]
        ELSE IF ~user.exists THEN DefaultPlan
        ELSE [plan |-> user.plan, plan_status |-> user.plan_status,
              plan_expires_at |-> user.plan_expires_at]

\* UserManager.get_plan in the current state
user_get_plan(email) == get_plan_in(users, premium, email)

\* The failure authenticate answers for an unknown email and a wrong password
\* alike, and the one for a missing argument.
AuthResult(success, error, user) == [success |-> success, error |-> error, user |-> user]

\* Mutant: an unknown email gets an answer of its own.
authenticate_tells_unknown(us, email, password) ==
    LET email_norm == Lower(Strip(email))
        user == FindByEmail(us, email_norm, NoUser)
    IN  IF email_norm = <<>> \/ password = ""
        THEN AuthResult(FALSE, "Email and password are required", NoUser)
        ELSE IF ~user.exists THEN AuthResult(FALSE, "Unknown email", NoUser)
        ELSE IF ~verify_password(password, user.password_hash)
        THEN AuthResult(FALSE, "Invalid credentials", NoUser)
        ELSE AuthResult(TRUE, "", user)

\* UserManager.authenticate over the collection us
authenticate(us, email, password) ==
    LET email_norm == Lower(Strip(email))
        user == FindByEmail(us, email_norm, NoUser)
    IN  IF email_norm = <<>> \/ password = ""
        THEN AuthResult(FALSE, "Email and password are required", NoUser)
        ELSE IF ~user.exists THEN AuthResult(FALSE, "Invalid credentials", NoUser)
        ELSE IF ~verify_password(password, user.password_hash)
        THEN AuthResult(FALSE, "Invalid credentials", NoUser)
        ELSE AuthResult(TRUE, "", user)

-----------------------------------------------------------------------------
(* Subscription registry: the collection and its queries *)

\* collection.find_one(query): the first document, in insertion order, that
\* matches; 0 when there is none.  A row's _id is its position in subs.
FindOne(s, Match(_)) ==
    LET hits == { i \in 1..Len(s) : Match(s[i]) }
    IN  IF hits = {} THEN 0 ELSE CHOOSE i \in hits : \A j \in hits : i <= j

\* Mutant: the duplicate check queries a status no row ever has.
is_email_subscribed_wrong_status(s, email) ==
    LET e == Strip(Lower(email))
    IN  FindOne(s, LAMBDA r : r.email = e /\ r.status = "subscribed") # 0

\* {'email': email, 'status': 'active'}
is_email_subscribed(s, email) ==
    LET e == Strip(Lower(email))
    IN  FindOne(s, LAMBDA r : r.email = e /\ r.status = "active") # 0

\* SubscriptionManager.get_plan: the users collection is the plan of record;
\* its answer is always a non-empty dict, so the legacy fallback is dead.
get_plan(email) == user_get_plan(Strip(Lower(email)))

\* Mutant: any plan document passes, whatever its tier and status.
plan_allows_filtered_any(plan) == plan.plan \in {"free", "premium"}

\* SubscriptionManager._plan_allows_filtered
plan_allows_filtered(plan) ==
    plan.plan = "premium" /\ plan.plan_status = "active"

\* The value a SubscriptionManager call returns.
Result(op, success, code) ==
    [op |-> op, success |-> success, code |-> code, email |-> <<>>,
     id |-> NoToken, unsubscribe_token |-> NoToken, reactivated |-> FALSE,
     verification_token |-> NoToken, expiry_time |-> NoTime]

\* Mutant: a missing identity is not rejected.
filtered_checks_no_auth(email, requested_type, user_id, auth_user) ==
    IF requested_type # "filtered" THEN [code |-> "OK", user_id |-> user_id]
    ELSE LET auth_email == Strip(Lower(auth_user.email))
             uid == IF user_id # <<>> THEN user_id
                    ELSE IF auth_user.sub # <<>> THEN auth_user.sub
                    ELSE auth_user.user_id
         IN  IF auth_email # <<>> /\ auth_email # email
             THEN [code |-> "EMAIL_MISMATCH", user_id |-> user_id]
             ELSE IF ~plan_allows_filtered(get_plan(email))
             THEN [code |-> "PREMIUM_REQUIRED", user_id |-> user_id]
             ELSE IF uid = <<>>
             THEN [code |-> "MISSING_USER_ID", user_id |-> uid]
             ELSE [code |-> "OK", user_id |-> uid]

\* create_subscription, lines 73-88: the checks of the identity, which need no
\* store.  Returns the rejection code, "OK" when none applies.
identity_checks(email, requested_type, auth_user) ==
    IF requested_type # "filtered" THEN "OK"
    ELSE IF ~auth_user.present THEN "AUTH_REQUIRED"
    ELSE LET auth_email == Strip(Lower(auth_user.email))
         IN  IF auth_email # <<>> /\ auth_email # email THEN "EMAIL_MISMATCH" ELSE "OK"

\* create_subscription, lines 91-105: the checks on the plan get_plan returned.
\* Returns the rejection code ("OK" when none applies) and the resolved user id.
plan_checks(plan, user_id, auth_user) ==
    LET uid == IF user_id # <<>> THEN user_id
               ELSE IF auth_user.sub # <<>> THEN auth_user.sub
               ELSE auth_user.user_id
    IN  IF ~plan_allows_filtered(plan)
        THEN [code |-> "PREMIUM_REQUIRED", user_id |-> user_id]
        ELSE IF uid = <<>>
        THEN [code |-> "MISSING_USER_ID", user_id |-> uid]
        ELSE [code |-> "OK", user_id |-> uid]

\* create_subscription, lines 72-105, run without interruption: the checks a
\* filtered request must pass.
filtered_checks(email, requested_type, user_id, auth_user) ==
    IF requested_type # "filtered" THEN [code |-> "OK", user_id |-> user_id]
    ELSE IF identity_checks(email, requested_type, auth_user) # "OK"
    THEN [code |-> identity_checks(email, requested_type, auth_user), user_id |-> user_id]
    ELSE plan_checks(get_plan(email), user_id, auth_user)

\* Mutant: the lookup of a row to reactivate never finds one.
find_unsubscribed_none(s, email) ==
    FindOne(s, LAMBDA r : r.email = email /\ r.status = "inactive")

\* {'email': email, 'status': 'unsubscribed'}
find_unsubscribed(s, email) ==
    FindOne(s, LAMBDA r : r.email = email /\ r.status = "unsubscribed")

\* create_subscription, lines 115-133: update_one({'_id': existing['_id']},
\* {'$set': ..., '$unset': ...}) on row i; owner is the value line 124 puts
\* into the $set.
set_reactivated(s, i, data, owner) ==
    [s EXCEPT ![i] =
        [@ EXCEPT !.status = "active",
                  !.subscriptionType = data.subscriptionType,
                  !.selectedServices = data.selectedServices,
                  !.user_id = owner,
                  !.unsubscribed_at = FALSE,
                  !.unsubscribe_method = "none"]]

\* create_subscription, lines 113-133, when the document find_one returned is
\* still what row i holds: line 124 is user_id or existing.get('user_id').
reactivate(s, i, data, user_id) ==
    set_reactivated(s, i, data, IF user_id # <<>> THEN user_id ELSE s[i].user_id)

\* create_subscription, lines 148-171: the document that insert_one stores;
\* created_at is the clock read while the document is built.
new_subscription(s, email, data, created_at) ==
    [id |-> generate_subscription_id(Len(s) + 1),
     email |-> email,
     subscriptionType |-> data.subscriptionType,
     selectedServices |-> data.selectedServices,
     user_id |-> data.user_id,
     created_at |-> created_at,
     status |-> "active",
     unsubscribe_token |-> generate_unsubscribe_token(Len(s) + 1),
     unsubscribe_verification_token |-> NoToken,
     verification_token_expiry |-> NoTime,
     unsubscribed_at |-> FALSE,
     unsubscribe_method |-> "none"]

\* create_subscription, lines 107-182, given the row find_one returned (0: none)
\* and whether the reactivating update_one reported a modified document.
write_subscription(s, email, data, user_id, existing, modified) ==
    LET upd == IF existing # 0 THEN reactivate(s, existing, data, user_id) ELSE s
    IN  IF existing # 0 /\ modified
        THEN [store |-> upd,
              result |-> [Result("create", TRUE, "OK") EXCEPT
                            !.id = s[existing].id,
                            !.email = s[existing].email,
                            !.unsubscribe_token = s[existing].unsubscribe_token,
                            !.reactivated = TRUE]]
        ELSE LET doc == new_subscription(upd, email, data, now)
             IN  [store |-> Append(upd, doc),
                  result |-> [Result("create", TRUE, "OK") EXCEPT
                                !.id = doc.id,
                                !.email = doc.email,
                                !.unsubscribe_token = doc.unsubscribe_token]]

\* Mutant: the unsubscribed row is reactivated before the filtered checks run.
create_subscription_writes_first(s, data, auth_user) ==
    LET email == Strip(Lower(data.email))
        checks == filtered_checks(email, data.subscriptionType,
                                  Strip(data.user_id), auth_user)
        existing == find_unsubscribed(s, email)
    IN  IF is_email_subscribed(s, email)
        THEN [store |-> s, result |-> Result("create", FALSE, "DUPLICATE_EMAIL")]
        ELSE IF checks.code # "OK"
        THEN [store |-> IF existing # 0
                        THEN reactivate(s, existing, data, checks.user_id) ELSE s,
              result |-> Result("create", FALSE, checks.code)]
        ELSE write_subscription(s, email, data, checks.user_id, existing,
                                existing # 0 /\ reactivate(s, existing, data, checks.user_id) # s)

\* SubscriptionManager.create_subscription, run without interruption
create_subscription(s, data, auth_user) ==
    LET email == Strip(Lower(data.email))
        checks == filtered_checks(email, data.subscriptionType,
                                  Strip(data.user_id), auth_user)
        existing == find_unsubscribed(s, email)
    IN  IF is_email_subscribed(s, email)
        THEN [store |-> s, result |-> Result("create", FALSE, "DUPLICATE_EMAIL")]
        ELSE IF checks.code # "OK"
        THEN [store |-> s, result |-> Result("create", FALSE, checks.code)]
        ELSE write_subscription(s, email, data, checks.user_id, existing,
                                existing # 0 /\ reactivate(s, existing, data, checks.user_id) # s)

\* Mutant: an already-unsubscribed row with the right token gets its own answer.
unsubscribe_tells_unsubscribed(s, email, token) ==
    LET e == Strip(Lower(email))
        i == FindOne(s, LAMBDA r : r.email = e /\ r.unsubscribe_token = token
                                   /\ r.status = "active")
        j == FindOne(s, LAMBDA r : r.email = e /\ r.unsubscribe_token = token)
    IN  IF i = 0 /\ j # 0
        THEN [store |-> s, result |-> Result("unsubscribe", FALSE, "ALREADY_UNSUBSCRIBED")]
        ELSE IF i = 0
        THEN [store |-> s, result |-> Result("unsubscribe", FALSE, "NOT_FOUND")]
        ELSE [store |-> [s EXCEPT ![i] = [@ EXCEPT !.status = "unsubscribed",
                                                   !.unsubscribed_at = TRUE]],
              result |-> Result("unsubscribe", TRUE, "OK")]

\* Mutant: the query does not ask for status = active.
unsubscribe_any_status(s, email, token) ==
    LET e == Strip(Lower(email))
        i == FindOne(s, LAMBDA r : r.email = e /\ r.unsubscribe_token = token)
    IN  IF i = 0
        THEN [store |-> s, result |-> Result("unsubscribe", FALSE, "NOT_FOUND")]
        ELSE [store |-> [s EXCEPT ![i] = [@ EXCEPT !.status = "unsubscribed",
                                                   !.unsubscribed_at = TRUE]],
              result |-> Result("unsubscribe", TRUE, "OK")]

\* SubscriptionManager.unsubscribe: find_one on (email, token, active), then
\* update_one on the _id found.  The update always changes the status here.
unsubscribe(s, email, token) ==
    LET e == Strip(Lower(email))
        i == FindOne(s, LAMBDA r : r.email = e /\ r.unsubscribe_token = token
                                   /\ r.status = "active")
    IN  IF i = 0
        THEN [store |-> s, result |-> Result("unsubscribe", FALSE, "NOT_FOUND")]
        ELSE [store |-> [s EXCEPT ![i] = [@ EXCEPT !.status = "unsubscribed",
                                                   !.unsubscribed_at = TRUE]],
              result |-> Result("unsubscribe", TRUE, "OK")]

\* Mutant: a pending verification token is kept, the new one is not stored.
create_unsubscribe_verification_keeps_pending(s, email, n) ==
    LET e == Strip(Lower(email))
        i == FindOne(s, LAMBDA r : r.email = e /\ r.status = "active")
        verification_token == generate_verification_token(n)
        expiry_time == now + Minutes(VerificationMinutes)
    IN  IF i = 0
        THEN [store |-> s, result |-> Result("request", FALSE, "NO_ACTIVE_SUBSCRIPTION")]
        ELSE [store |-> [s EXCEPT ![i] =
                            [@ EXCEPT !.unsubscribe_verification_token =
                                          IF @ # NoToken THEN @ ELSE verification_token,
                                      !.verification_token_expiry = expiry_time]],
              result |-> [Result("request", TRUE, "OK") EXCEPT
                            !.email = e,
                            !.verification_token = verification_token,
                            !.expiry_time = expiry_time]]

\* SubscriptionManager.create_unsubscribe_verification; n numbers the token drawn.
create_unsubscribe_verification(s, email, n) ==
    LET e == Strip(Lower(email))
        i == FindOne(s, LAMBDA r : r.email = e /\ r.status = "active")
        verification_token == generate_verification_token(n)
        expiry_time == now + Minutes(VerificationMinutes)
    IN  IF i = 0
        THEN [store |-> s, result |-> Result("request", FALSE, "NO_ACTIVE_SUBSCRIPTION")]
        ELSE [store |-> [s EXCEPT ![i] =
                            [@ EXCEPT !.unsubscribe_verification_token = verification_token,
                                      !.verification_token_expiry = expiry_time]],
              result |-> [Result("request", TRUE, "OK") EXCEPT
                            !.email = e,
                            !.verification_token = verification_token,
                            !.expiry_time = expiry_time]]

\* Mutant: the expiry of the verification token is not looked at.
verify_and_unsubscribe_no_expiry(s, email, verification_token) ==
    LET e == Strip(Lower(email))
        i == FindOne(s, LAMBDA r : r.email = e
                                   /\ r.unsubscribe_verification_token = verification_token
                                   /\ r.status = "active")
    IN  IF i = 0
        THEN [store |-> s, result |-> Result("verify", FALSE, "INVALID_LINK")]
        ELSE [store |-> [s EXCEPT ![i] =
                            [@ EXCEPT !.status = "unsubscribed",
                                      !.unsubscribed_at = TRUE,
                                      !.unsubscribe_method = "email_verification",
                                      !.unsubscribe_verification_token = NoToken,
                                      !.verification_token_expiry = NoTime]],
              result |-> Result("verify", TRUE, "OK")]

\* Mutant: the update does not unset the verification token and its expiry.
verify_and_unsubscribe_keeps_token(s, email, verification_token) ==
    LET e == Strip(Lower(email))
        i == FindOne(s, LAMBDA r : r.email = e
                                   /\ r.unsubscribe_verification_token = verification_token
                                   /\ r.status = "active")
    IN  IF i = 0
        THEN [store |-> s, result |-> Result("verify", FALSE, "INVALID_LINK")]
        ELSE IF s[i].verification_token_expiry # NoTime
                /\ now > s[i].verification_token_expiry
        THEN [store |-> s, result |-> Result("verify", FALSE, "LINK_EXPIRED")]
        ELSE [store |-> [s EXCEPT ![i] =
                            [@ EXCEPT !.status = "unsubscribed",
                                      !.unsubscribed_at = TRUE,
                                      !.unsubscribe_method = "email_verification"]],
              result |-> Result("verify", TRUE, "OK")]

\* SubscriptionManager.verify_and_unsubscribe.  A query value of None matches a
\* document in which the field is missing, as the store defines it.
verify_and_unsubscribe(s, email, verification_token) ==
    LET e == Strip(Lower(email))
        i == FindOne(s, LAMBDA r : r.email = e
                                   /\ r.unsubscribe_verification_token = verification_token
                                   /\ r.status = "active")
    IN  IF i = 0
        THEN [store |-> s, result |-> Result("verify", FALSE, "INVALID_LINK")]
        ELSE IF s[i].verification_token_expiry # NoTime
                /\ now > s[i].verification_token_expiry
        THEN [store |-> s, result |-> Result("verify", FALSE, "LINK_EXPIRED")]
        ELSE [store |-> [s EXCEPT ![i] =
                            [@ EXCEPT !.status = "unsubscribed",
                                      !.unsubscribed_at = TRUE,
                                      !.unsubscribe_method = "email_verification",
                                      !.unsubscribe_verification_token = NoToken,
                                      !.verification_token_expiry = NoTime]],
              result |-> Result("verify", TRUE, "OK")]

\* SubscriptionManager.get_subscription: the query holds the arguments given.
get_subscription(s, email, token) ==
    IF email = <<>> /\ token = NoToken THEN 0
    ELSE FindOne(s, LAMBDA r : /\ (email # <<>> => r.email = Strip(Lower(email)))
                               /\ (token # NoToken => r.unsubscribe_token = token))

\* What a handler sends: the HTTP status, the body's success flag, the error
\* (or OK), and the subscription fields the body shows, if any.
NoView == [email |-> <<>>, subscriptionType |-> "none", selectedServices |-> <<>>]

Http(status, success, code) ==
    [status |-> status, success |-> success, code |-> code, subscription |-> NoView]

\* unsubscribe.handler.do_POST
unsubscribe_do_POST(s, data) ==
    IF data.email = <<>>
    THEN [store |-> s, response |-> Http(400, FALSE, "EMAIL_REQUIRED")]
    ELSE IF data.verify_only
    THEN IF data.token = NoToken
         THEN [store |-> s, response |-> Http(400, FALSE, "TOKEN_REQUIRED")]
         ELSE LET i == get_subscription(s, data.email, data.token)
              IN  IF i # 0 /\ s[i].status = "active"
                  THEN [store |-> s,
                        response |-> [Http(200, TRUE, "OK") EXCEPT !.subscription =
                            [email |-> s[i].email,
                             subscriptionType |-> s[i].subscriptionType,
                             selectedServices |-> s[i].selectedServices]]]
                  ELSE [store |-> s, response |-> Http(404, FALSE, "NOT_FOUND_OR_UNSUBSCRIBED")]
    ELSE IF data.verify # NoToken
    THEN LET r == verify_and_unsubscribe(s, data.email, data.verify)
         IN  [store |-> r.store,
              response |-> Http(IF r.result.success THEN 200 ELSE 400,
                                r.result.success, r.result.code)]
    ELSE IF data.token # NoToken
    THEN LET r == unsubscribe(s, data.email, data.token)
         IN  [store |-> r.store,
              response |-> Http(IF r.result.success THEN 200 ELSE 400,
                                r.result.success, r.result.code)]
    ELSE [store |-> s, response |-> Http(400, FALSE, "VERIFICATION_TOKEN_REQUIRED")]

\* request_unsubscribe.handler.do_POST; email_sent is what
\* EmailService.send_unsubscribe_verification answers.
request_unsubscribe_do_POST(s, email, n, email_sent) ==
    IF email = <<>>
    THEN [store |-> s, response |-> Http(400, FALSE, "EMAIL_REQUIRED")]
    ELSE LET r == create_unsubscribe_verification(s, email, n)
         IN  IF ~r.result.success
             THEN [store |-> r.store, response |-> Http(404, FALSE, r.result.code)]
             ELSE IF email_sent
             THEN [store |-> r.store, response |-> Http(200, TRUE, "OK")]
             ELSE [store |-> r.store, response |-> Http(500, FALSE, "EMAIL_NOT_SENT")]

-----------------------------------------------------------------------------
(* User registry: writes *)

\* Mutant: an existing user is overwritten instead of refused.
create_user_overwrites(email, password) ==
    LET email_norm == Lower(Strip(email))
    IN  IF email_norm = <<>> THEN [ok |-> FALSE, error |-> "Email is required", users |-> users]
        ELSE IF password = "" THEN [ok |-> FALSE, error |-> "Password is required", users |-> users]
        ELSE [ok |-> TRUE, error |-> "",
              users |-> [users EXCEPT ![email_norm] =
                            [exists |-> TRUE, password_hash |-> hash_password(password),
                             plan |-> "free", plan_status |-> "inactive",
                             plan_expires_at |-> NoTime]]]

\* UserManager.create_user
create_user(email, password) ==
    LET email_norm == Lower(Strip(email))
    IN  IF email_norm = <<>> THEN [ok |-> FALSE, error |-> "Email is required", users |-> users]
        ELSE IF password = "" THEN [ok |-> FALSE, error |-> "Password is required", users |-> users]
        ELSE IF users[email_norm].exists
        THEN [ok |-> FALSE, error |-> "Email already exists", users |-> users]
        ELSE [ok |-> TRUE, error |-> "",
              users |-> [users EXCEPT ![email_norm] =
                            [exists |-> TRUE, password_hash |-> hash_password(password),
                             plan |-> "free", plan_status |-> "inactive",
                             plan_expires_at |-> NoTime]]]

\* Mutant: the password of a user that exists is left as it was.
upsert_premium_keeps_password(email, password) ==
    LET email_norm == Lower(Strip(email))
    IN  IF email_norm = <<>>
        THEN [ok |-> FALSE, error |-> "Email is required", users |-> users, premium |-> premium]
        ELSE IF password = ""
        THEN [ok |-> FALSE, error |-> "Password is required", users |-> users, premium |-> premium]
        ELSE [ok |-> TRUE, error |-> "",
              users |-> [users EXCEPT ![email_norm] =
                            [exists |-> TRUE,
                             password_hash |-> IF @.exists THEN @.password_hash
                                               ELSE hash_password(password),
                             plan |-> "premium", plan_status |-> "active",
                             plan_expires_at |-> NoTime]],
              premium |-> [premium EXCEPT ![email_norm] =
                            [exists |-> TRUE, plan |-> "premium", status |-> "active",
                             plan_expires_at |-> NoTime]]]

\* UserManager.upsert_premium_with_password
upsert_premium_with_password(email, password) ==
    LET email_norm == Lower(Strip(email))
    IN  IF email_norm = <<>>
        THEN [ok |-> FALSE, error |-> "Email is required", users |-> users, premium |-> premium]
        ELSE IF password = ""
        THEN [ok |-> FALSE, error |-> "Password is required", users |-> users, premium |-> premium]
        ELSE [ok |-> TRUE, error |-> "",
              users |-> [users EXCEPT ![email_norm] =
                            [exists |-> TRUE, password_hash |-> hash_password(password),
                             plan |-> "premium", plan_status |-> "active",
                             plan_expires_at |-> NoTime]],
              premium |-> [premium EXCEPT ![email_norm] =
                            [exists |-> TRUE, plan |-> "premium", status |-> "active",
                             plan_expires_at |-> NoTime]]]

\* UserManager.set_premium_active
set_premium_active(email, status, expires_at) ==
    LET email_norm == Lower(Strip(email))
    IN  IF email_norm = <<>> THEN [ok |-> FALSE, premium |-> premium]
        ELSE [ok |-> TRUE,
              premium |-> [premium EXCEPT ![email_norm] =
                            [exists |-> TRUE, plan |-> "premium", status |-> status,
                             plan_expires_at |-> expires_at]]]

-----------------------------------------------------------------------------
(* Token service: signed, expiring claims (auth_utils over PyJWT, HS256) *)

JWT_TTL_DAYS == 30

ACTION_TTL_MINUTES == 15

Days(d) == d * 24 * 60 * 60 * TicksPerSecond

\* The whole second an instant falls in: timegm(dt.utctimetuple()).
Seconds(t) == t \div TicksPerSecond

\* None, for a claim or an argument that holds a string.
NoneStr == "none"

\* A payload with no claims: what a failed verification answers (None).
NoClaims ==
    [sub |-> <<>>, email |-> <<>>, purpose |-> NoneStr, plan |-> NoneStr,
     plan_status |-> NoneStr, plan_expires_at |-> NoTime, iat |-> NoTime, exp |-> NoTime]

\* A missing token (None or ""), and a string that is not a JWT.
NoJwt == [kind |-> "missing", key |-> "", claims |-> NoClaims]

GarbageJwt == [kind |-> "garbage", key |-> "", claims |-> NoClaims]

\* jwt.encode(payload, key, algorithm=JWT_ALG): datetime claims are written as
\* whole seconds since the epoch; the signature is determined by the key.
jwt_encode(payload, key) ==
    [kind |-> "jwt", key |-> key,
     claims |-> [payload EXCEPT !.iat = Seconds(@), !.exp = Seconds(@)]]

\* Mutant: the exp claim is not validated.
jwt_decode_no_exp(token, key, t) ==
    IF token.kind # "jwt" THEN [ok |-> FALSE, error |-> "DecodeError", payload |-> NoClaims]
    ELSE IF token.key # key
    THEN [ok |-> FALSE, error |-> "InvalidSignatureError", payload |-> NoClaims]
    ELSE IF token.claims.iat # NoTime /\ token.claims.iat * TicksPerSecond > t
    THEN [ok |-> FALSE, error |-> "ImmatureSignatureError", payload |-> NoClaims]
    ELSE [ok |-> TRUE, error |-> "none", payload |-> token.claims]

\* jwt.decode(token, key, algorithms=[JWT_ALG]) at instant t: the token must
\* parse and carry a signature made with the key; an iat claim must not be
\* later than the clock, and an exp claim must be later than the clock.  A
\* claim that is missing (NoTime) is not validated.
jwt_decode(token, key, t) ==
    IF token.kind # "jwt" THEN [ok |-> FALSE, error |-> "DecodeError", payload |-> NoClaims]
    ELSE IF token.key # key
    THEN [ok |-> FALSE, error |-> "InvalidSignatureError", payload |-> NoClaims]
    ELSE IF token.claims.iat # NoTime /\ token.claims.iat * TicksPerSecond > t
    THEN [ok |-> FALSE, error |-> "ImmatureSignatureError", payload |-> NoClaims]
    ELSE IF token.claims.exp # NoTime /\ token.claims.exp * TicksPerSecond <= t
    THEN [ok |-> FALSE, error |-> "ExpiredSignatureError", payload |-> NoClaims]
    ELSE [ok |-> TRUE, error |-> "none", payload |-> token.claims]

\* dict.get(key, default)
Get(item, key, default) == IF key \in DOMAIN item THEN item[key] ELSE default

\* x or y, for values where NoneStr is the falsy one
Or(x, y) == IF x # NoneStr THEN x ELSE y

\* The value an issuing call returns, or the exception it raises: the
\* RuntimeError of _require_secret, the TypeError of jwt.encode.
Issued(op, token) == [op |-> op, raised |-> FALSE, token |-> token]

IssueRaised(op) == [op |-> op, raised |-> TRUE, token |-> NoJwt]

\* auth_utils.create_token at instant t.  The expiry of a plan is a datetime,
\* which the JSON encoder of jwt.encode does not take: only None is encoded.
create_token(user, plan, t) ==
    LET expires == IF Get(plan, "plan_expires_at", NoTime) # NoTime THEN plan.plan_expires_at
                   ELSE IF Get(plan, "expires_at", NoTime) # NoTime THEN plan.expires_at
                   ELSE Get(user, "plan_expires_at", NoTime)
    IN  IF secret = "" \/ expires # NoTime THEN IssueRaised("create_token")
        ELSE Issued("create_token",
                jwt_encode([sub |-> user.id,
                            email |-> user.email,
                            purpose |-> NoneStr,
                            plan |-> Or(Get(plan, "plan", NoneStr), Get(user, "plan", "free")),
                            plan_status |-> Or(Get(plan, "plan_status", NoneStr),
                                               Or(Get(plan, "status", NoneStr),
                                                  Get(user, "plan_status", "inactive"))),
                            plan_expires_at |-> expires,
                            exp |-> t + Days(JWT_TTL_DAYS),
                            iat |-> t], secret))

\* The names an extra-claims map sets; the map is a set of <<name, value>>.
Keys(extra) == { kv[1] : kv \in extra }

\* payload.update(extra): the extra claims replace the claims of the same name
Update(payload, extra) ==
    [k \in DOMAIN payload |->
        IF k \in Keys(extra) THEN (CHOOSE kv \in extra : kv[1] = k)[2] ELSE payload[k]]

\* auth_utils.create_action_token at instant t
create_action_token(email, purpose, ttl_minutes, extra, t) ==
    IF secret = "" THEN IssueRaised("create_action_token")
    ELSE Issued("create_action_token",
            jwt_encode(Update([sub |-> Lower(Strip(email)),
                               email |-> Lower(Strip(email)),
                               purpose |-> purpose,
                               plan |-> NoneStr,
                               plan_status |-> NoneStr,
                               plan_expires_at |-> NoTime,
                               iat |-> t,
                               exp |-> t + Minutes(ttl_minutes)], extra), secret))

\* The value a verifying call returns: a payload, or NoClaims for None.
Verified(op, payload) == [op |-> op, raised |-> FALSE, payload |-> payload]

VerifyRaised(op) == [op |-> op, raised |-> TRUE, payload |-> NoClaims]

\* Mutant: the purpose claim is not compared.
verify_action_token_any_purpose(token, purpose, t) ==
    IF token.kind = "missing" \/ secret = "" THEN Verified("verify_action_token", NoClaims)
    ELSE LET d == jwt_decode(token, secret, t)
         IN  IF ~d.ok THEN Verified("verify_action_token", NoClaims)
             ELSE Verified("verify_action_token", d.payload)

\* auth_utils.verify_action_token at instant t
verify_action_token(token, purpose, t) ==
    IF token.kind = "missing" \/ secret = "" THEN Verified("verify_action_token", NoClaims)
    ELSE LET d == jwt_decode(token, secret, t)
         IN  IF ~d.ok THEN Verified("verify_action_token", NoClaims)
             ELSE IF d.payload.purpose # purpose
             THEN Verified("verify_action_token", NoClaims)
             ELSE Verified("verify_action_token", d.payload)

\* Mutant: the exception of jwt.decode is not caught.
verify_token_uncaught(token, t) ==
    IF token.kind = "missing" THEN Verified("verify_token", NoClaims)
    ELSE IF secret = "" THEN Verified("verify_token", NoClaims)
    ELSE LET d == jwt_decode(token, secret, t)
         IN  IF ~d.ok THEN VerifyRaised("verify_token")
             ELSE Verified("verify_token", d.payload)

\* auth_utils.verify_token at instant t
verify_token(token, t) ==
    IF token.kind = "missing" THEN Verified("verify_token", NoClaims)
    ELSE IF secret = "" THEN Verified("verify_token", NoClaims)
    ELSE LET d == jwt_decode(token, secret, t)
         IN  IF ~d.ok THEN Verified("verify_token", NoClaims)
             ELSE Verified("verify_token", d.payload)

-----------------------------------------------------------------------------
(* Request handlers.  Each request is served by a handler instance of its   *)
(* own against the shared store, which has no transactions and no locks:    *)
(* every call on a collection is one step, and the steps of handlers that   *)
(* run at the same time interleave.  A step holds one store call and the    *)
(* handler's own computation around it: the values it writes, and what it   *)
(* answers when the call ends the request.                                  *)

tokenState == <<secret, wire, out>>

\* The handler instances that may run at the same time, and the position of
\* one that serves no request.
Workers == {1, 2}

Idle == [pc |-> "idle", data |-> <<>>, existing |-> 0]

\* The one instance at work when requests are served one at a time.
Serial == {1}

\* The process that runs a script from the command line (send_notifications.py,
\* view_subscriptions.py), next to the request handlers.
Runner == 0

InitRegistry ==
    /\ subs = <<>>
    /\ users = [e \in NormEmails |-> NoUser]
    /\ premium = [e \in NormEmails |-> NoPremium]
    /\ nver = 0
    /\ now = 0
    /\ ticks = 0
    /\ procs = [w \in Workers \cup {Runner} |-> Idle]

InitTokens ==
    /\ secret = "k1"
    /\ wire = {}
    /\ out = Verified("none", NoClaims)

Init == InitRegistry /\ InitTokens

\* The session token of a response reaches the client, who holds at most
\* MaxLinks tokens and drops what comes beyond; a raised exception makes the
\* response a 500 without a token.
Respond(w, session) ==
    /\ procs' = [procs EXCEPT ![w] = Idle]
    /\ wire' = IF session.raised \/ Cardinality(wire) >= MaxLinks THEN wire
               ELSE wire \cup { [token |-> session.token, by |-> session.op, issued |-> now,
                                 purpose |-> NoneStr, ttl |-> Days(JWT_TTL_DAYS),
                                 overrides |-> {}] }
    /\ UNCHANGED out

\* What a handler does with the plan get_plan has returned: create_subscription
\* goes on with lines 91-105, auth_signup and upgrade_confirm sign the session
\* token and answer.
Planned(w, plan) ==
    LET d == procs[w].data
        checks == plan_checks(plan, Strip(d.req.user_id), d.auth)
    IN  IF d.op = "create"
        THEN /\ procs' = [procs EXCEPT ![w] =
                            IF checks.code # "OK" THEN Idle
                            ELSE [@ EXCEPT !.pc = "lookup", !.data.user_id = checks.user_id]]
             /\ UNCHANGED <<wire, out>>
        ELSE Respond(w, create_token(d.user, plan, now))

\* UserManager.get_plan, lines 71-78: premium_collection.find_one
ReadPremium(w) ==
    LET prem == FindByEmail(premium, procs[w].data.email, NoPremium)
    IN  /\ procs[w].pc = "plan"
        /\ IF premium_is_active(prem)
           THEN Planned(w, [plan |-> prem.plan, plan_status |-> prem.status,
                            plan_expires_at |-> prem.plan_expires_at])
           ELSE /\ procs' = [procs EXCEPT ![w].pc = "plan_user"]
                /\ UNCHANGED <<wire, out>>
        /\ UNCHANGED <<subs, users, premium, nver, now, ticks, secret>>

\* UserManager.get_plan, lines 79-86: get_by_email, a find_one on users
ReadUser(w) ==
    LET user == FindByEmail(users, procs[w].data.email, NoUser)
    IN  /\ procs[w].pc = "plan_user"
        /\ Planned(w, IF ~user.exists THEN DefaultPlan
                      ELSE [plan |-> user.plan, plan_status |-> user.plan_status,
                            plan_expires_at |-> user.plan_expires_at])
        /\ UNCHANGED <<subs, users, premium, nver, now, ticks, secret>>

\* What a handler keeps of the request body and of the identity for the calls
\* that follow the first: the fields those calls read.
Kept(data) ==
    [subscriptionType |-> data.subscriptionType,
     selectedServices |-> data.selectedServices, user_id |-> data.user_id]

KeptOf(data, auth_user) ==
    IF data.subscriptionType = "filtered"
    THEN [sub |-> auth_user.sub, user_id |-> auth_user.user_id]
    ELSE [sub |-> <<>>, user_id |-> <<>>]

\* POST /subscribe -> create_subscription, lines 56-88: is_email_subscribed, a
\* find_one, and the checks of the identity that need no store
BeginCreate(w, data, auth_user) ==
    LET email == Strip(Lower(data.email))
        code == IF is_email_subscribed(subs, email) THEN "DUPLICATE_EMAIL"
                ELSE identity_checks(email, data.subscriptionType, auth_user)
    IN  /\ procs[w].pc = "idle"
        /\ procs' = [procs EXCEPT ![w] =
                        IF code # "OK" THEN Idle
                        ELSE [pc |-> IF data.subscriptionType = "filtered"
                                     THEN "plan" ELSE "lookup",
                              data |-> [op |-> "create", email |-> email,
                                        req |-> Kept(data), auth |-> KeptOf(data, auth_user),
                                        user_id |-> Strip(data.user_id),
                                        created_at |-> NoTime],
                              existing |-> 0]]
        /\ UNCHANGED <<subs, users, premium, nver, now, ticks, tokenState>>

\* create_subscription, lines 107-111: the find_one for an unsubscribed row,
\* and what the handler prepares from its answer before the next store call:
\* with a document, the $set of lines 117-127, whose user_id (line 124) is
\* taken from the document as it was returned; with none, the new document of
\* lines 148-168, whose created_at is the clock of that moment.
LookupUnsubscribed(w) ==
    LET existing == find_unsubscribed(subs, procs[w].data.email)
    IN  /\ procs[w].pc = "lookup"
        /\ procs' = [procs EXCEPT ![w] =
                        IF existing # 0
                        THEN [@ EXCEPT !.pc = "update",
                                       !.existing = existing,
                                       !.data.user_id = IF @ # <<>> THEN @
                                                        ELSE subs[existing].user_id]
                        ELSE [@ EXCEPT !.pc = "insert",
                                       !.existing = existing,
                                       !.data.created_at = now]]
        /\ UNCHANGED <<subs, users, premium, nver, now, ticks, tokenState>>

\* create_subscription, lines 113-145: update_one on the _id found, with the
\* $set prepared from the document find_one returned.  The update stamps
\* updated_at and resubscribed_at, so modified_count is 1 unless the row
\* already holds every value written, the two stamps included; when no other
\* field changes, both outcomes are possible.  With modified_count 0 the
\* handler goes on to build the new document of lines 148-168.
UpdateExisting(w, modified) ==
    LET d == procs[w].data
        upd == set_reactivated(subs, procs[w].existing, d.req, d.user_id)
    IN  /\ procs[w].pc = "update"
        /\ (upd # subs) => modified
        /\ subs' = upd
        /\ procs' = [procs EXCEPT ![w] =
                        IF modified THEN Idle
                        ELSE [@ EXCEPT !.pc = "insert", !.data.created_at = now]]
        /\ UNCHANGED <<users, premium, nver, now, ticks, tokenState>>

\* create_subscription, lines 147-182: insert_one of a new active row.  The
\* collection has no unique index, so insert_one never raises
\* DuplicateKeyError.
InsertNew(w) ==
    LET d == procs[w].data
    IN  /\ procs[w].pc = "insert"
        /\ Len(subs) < MaxRows
        /\ subs' = Append(subs, new_subscription(subs, d.email, d.req, d.created_at))
        /\ procs' = [procs EXCEPT ![w] = Idle]
        /\ UNCHANGED <<users, premium, nver, now, ticks, tokenState>>

\* The $set / $unset of the update_one of either unsubscribe path, on row i.
set_unsubscribed(s, i, method) ==
    IF method = "token"
    THEN [s EXCEPT ![i] = [@ EXCEPT !.status = "unsubscribed",
                                    !.unsubscribed_at = TRUE]]
    ELSE [s EXCEPT ![i] = [@ EXCEPT !.status = "unsubscribed",
                                    !.unsubscribed_at = TRUE,
                                    !.unsubscribe_method = "email_verification",
                                    !.unsubscribe_verification_token = NoToken,
                                    !.verification_token_expiry = NoTime]]

\* POST /unsubscribe, lines 27-81, for a body without verify_only: the handler
\* answers 400 without a store call when the email is missing or no token is
\* given, calls verify_and_unsubscribe when verify is given, and unsubscribe
\* with the permanent token otherwise.  Then unsubscribe, lines 258-270, or
\* verify_and_unsubscribe, lines 377-398: the find_one for an active row with
\* the token, and the expiry check.
FindActive(w, email, token, verify) ==
    LET method == IF verify # NoToken THEN "verify" ELSE "token"
        e == Strip(Lower(email))
        i == IF method = "token"
             THEN FindOne(subs, LAMBDA r : r.email = e /\ r.unsubscribe_token = token
                                           /\ r.status = "active")
             ELSE FindOne(subs, LAMBDA r : r.email = e
                                           /\ r.unsubscribe_verification_token = verify
                                           /\ r.status = "active")
        expired == /\ method = "verify"
                   /\ i # 0
                   /\ subs[i].verification_token_expiry # NoTime
                   /\ now > subs[i].verification_token_expiry
        refused == email = <<>> \/ (verify = NoToken /\ token = NoToken)
    IN  /\ procs[w].pc = "idle"
        /\ procs' = [procs EXCEPT ![w] =
                        IF refused \/ i = 0 \/ expired THEN Idle
                        ELSE [pc |-> "write", data |-> [op |-> method], existing |-> i]]
        /\ UNCHANGED <<subs, users, premium, nver, now, ticks, tokenState>>

\* unsubscribe, lines 272-293, or verify_and_unsubscribe, lines 400-425: the
\* update_one on the _id found, whatever the row's status is by now.  The
\* update stamps unsubscribed_at and updated_at, so modified_count is 1 unless
\* the row already holds every value written, the two stamps included; when
\* no other field changes, both outcomes are possible.
WriteUnsubscribed(w, modified) ==
    LET upd == set_unsubscribed(subs, procs[w].existing, procs[w].data.op)
    IN  /\ procs[w].pc = "write"
        /\ (upd # subs) => modified
        /\ subs' = upd
        /\ procs' = [procs EXCEPT ![w] =
                        [@ EXCEPT !.pc = IF modified THEN "succeeded" ELSE "failed"]]
        /\ UNCHANGED <<users, premium, nver, now, ticks, tokenState>>

\* POST /unsubscribe, lines 65-68 or 74-77: the handler sends its response.
ReturnUnsubscribe(w) ==
    /\ procs[w].pc \in {"succeeded", "failed"}
    /\ procs' = [procs EXCEPT ![w] = Idle]
    /\ UNCHANGED <<subs, users, premium, nver, now, ticks, tokenState>>

\* POST /request-unsubscribe -> create_unsubscribe_verification, lines 314-332:
\* the find_one for an active row of the email, and the expiry the handler
\* computes from the clock before the next store call
FindForVerification(w, email) ==
    LET e == Strip(Lower(email))
        i == FindOne(subs, LAMBDA r : r.email = e /\ r.status = "active")
    IN  /\ procs[w].pc = "idle"
        /\ procs' = [procs EXCEPT ![w] =
                        IF email = <<>> \/ i = 0 THEN Idle
                        ELSE [pc |-> "token", existing |-> i,
                              data |-> [op |-> "request",
                                        expiry_time |-> now + Minutes(VerificationMinutes)]]]
        /\ UNCHANGED <<subs, users, premium, nver, now, ticks, tokenState>>

\* create_unsubscribe_verification, lines 334-344: a fresh token and the
\* expiry computed are written by update_one on the _id found, whatever the
\* row's status is by now
WriteVerification(w) ==
    /\ procs[w].pc = "token"
    /\ nver < MaxVerif
    /\ subs' = [subs EXCEPT ![procs[w].existing] =
                   [@ EXCEPT !.unsubscribe_verification_token =
                                 generate_verification_token(nver + 1),
                             !.verification_token_expiry = procs[w].data.expiry_time]]
    /\ nver' = nver + 1
    /\ procs' = [procs EXCEPT ![w] = Idle]
    /\ UNCHANGED <<users, premium, now, ticks, tokenState>>

\* The user document insert_one or find_one_and_update hands back
UserDoc(us, email_norm) ==
    [id |-> email_norm, email |-> email_norm,
     plan |-> us[email_norm].plan, plan_status |-> us[email_norm].plan_status,
     plan_expires_at |-> us[email_norm].plan_expires_at]

\* POST /auth/signup, lines 17-28 -> create_user: insert_one on users, which
\* the unique index on email refuses for an email that is there
BeginSignup(w, email, password) ==
    LET r == create_user(email, password)
        e == Lower(Strip(email))
    IN  /\ procs[w].pc = "idle"
        /\ users' = r.users
        /\ procs' = [procs EXCEPT ![w] =
                        IF ~r.ok THEN Idle
                        ELSE [pc |-> "plan", existing |-> 0,
                              data |-> [op |-> "signup", email |-> e,
                                        user |-> UserDoc(r.users, e)]]]
        /\ UNCHANGED <<subs, premium, nver, now, ticks, tokenState>>

\* POST /upgrade_confirm, lines 14-25 -> upsert_premium_with_password, lines
\* 93-117: the token must verify as an upgrade link; find_one_and_update on
\* users, an upsert.  raised: the store call fails.
BeginUpgrade(w, token, password, raised) ==
    LET payload == verify_action_token(token, "upgrade", now).payload
        email == Lower(Strip(payload.email))
        upd == [users EXCEPT ![email] =
                   [exists |-> TRUE, password_hash |-> hash_password(password),
                    plan |-> "premium", plan_status |-> "active",
                    plan_expires_at |-> NoTime]]
        refused == payload = NoClaims \/ email = <<>> \/ password = "" \/ raised
    IN  /\ procs[w].pc = "idle"
        /\ users' = IF refused THEN users ELSE upd
        /\ procs' = [procs EXCEPT ![w] =
                        IF refused THEN Idle
                        ELSE [pc |-> "mirror", existing |-> 0,
                              data |-> [op |-> "upgrade", email |-> email,
                                        user |-> UserDoc(upd, email)]]]
        /\ UNCHANGED <<subs, premium, nver, now, ticks, tokenState>>

\* upsert_premium_with_password, lines 118-137: find_one_and_update on
\* premium_accounts, an upsert.  raised: the store call fails, the except
\* clause answers a failure and the handler a 400.
MirrorPremium(w, raised) ==
    LET email == procs[w].data.email
    IN  /\ procs[w].pc = "mirror"
        /\ premium' = IF raised THEN premium
                      ELSE [premium EXCEPT ![email] =
                               [exists |-> TRUE, plan |-> "premium", status |-> "active",
                                plan_expires_at |-> NoTime]]
        /\ procs' = [procs EXCEPT ![w] = IF raised THEN Idle ELSE [@ EXCEPT !.pc = "plan"]]
        /\ UNCHANGED <<subs, users, nver, now, ticks, tokenState>>

\* UserManager.set_premium_active: one find_one_and_update, an upsert
SetPremium(email, status, expires_at) ==
    LET r == set_premium_active(email, status, expires_at)
    IN  /\ premium' = r.premium
        /\ UNCHANGED <<subs, users, nver, now, ticks, procs, tokenState>>

\* Time passes.
Tick(d) ==
    /\ ticks < MaxTicks
    /\ now' = now + d
    /\ ticks' = ticks + 1
    /\ UNCHANGED <<subs, users, premium, nver, procs, tokenState>>

\* A link of purpose "upgrade" for the email, signed with the deployment's key
\* and far from expiry.
UpgradeLink(email) ==
    [kind |-> "jwt", key |-> "k1",
     claims |-> [NoClaims EXCEPT !.sub = email, !.email = email, !.purpose = "upgrade",
                                 !.iat = 0, !.exp = Seconds(Days(JWT_TTL_DAYS + 1))]]

\* The steps by which the handler instances in W go on with a request they
\* have begun.
CreateSteps(W) ==
    \/ \E w \in W : LookupUnsubscribed(w)
    \/ \E w \in W, modified \in BOOLEAN : UpdateExisting(w, modified)
    \/ \E w \in W : InsertNew(w)

PlanSteps(W) ==
    \/ \E w \in W : ReadPremium(w)
    \/ \E w \in W : ReadUser(w)

UnsubscribeSteps(W) ==
    \/ \E w \in W, modified \in BOOLEAN : WriteUnsubscribed(w, modified)
    \/ \E w \in W : ReturnUnsubscribe(w)

-----------------------------------------------------------------------------
(* Spec: the subscription lifecycle under a clock when requests are served *)
(* one at a time: one handler instance, which takes the next request when   *)
(* it has answered the last.  Subscriptions are of type all and need no     *)
(* identity.                                                                *)

SpecPayloads ==
    [email : RawEmails, subscriptionType : {"all"},
     selectedServices : {<<>>}, user_id : {<<>>}]

Next ==
    \/ \E w \in Serial, data \in SpecPayloads : BeginCreate(w, data, NoAuth)
    \/ CreateSteps(Serial)
    \/ \E w \in Serial, email \in RawEmails, token \in UnsubscribeTokens :
            FindActive(w, email, token, NoToken)
    \/ \E w \in Serial, email \in RawEmails, verify \in VerificationTokens \ {NoToken} :
            FindActive(w, email, NoToken, verify)
    \/ UnsubscribeSteps(Serial)
    \/ \E w \in Serial, email \in RawEmails : FindForVerification(w, email)
    \/ \E w \in Serial : WriteVerification(w)
    \/ \E d \in {1, Minutes(VerificationMinutes)} : Tick(d)

Spec == Init /\ [][Next]_vars

-----------------------------------------------------------------------------
(* SpecGate: premium gating of filtered subscriptions against the user     *)
(* registry.  Two handler instances serve subscribe requests at the same    *)
(* time; unsubscribe and upgrade requests are served by the first only.     *)
(* All requests are for the one address "a" in its two spellings.           *)

GatePayloads ==
    [email : {<<"a">>, <<" ", "A">>}, subscriptionType : {"all", "filtered"},
     selectedServices : {<<>>}, user_id : {<<>>}]

GateAuthUsers == { NoAuth, Identity(<<"a">>, <<"U">>, <<>>, "free") }

NextGate ==
    \/ \E w \in Workers, data \in GatePayloads, auth_user \in GateAuthUsers :
            BeginCreate(w, data, auth_user)
    \/ PlanSteps(Workers)
    \/ CreateSteps(Workers)
    \/ \E w \in Serial, token \in UnsubscribeTokens :
            FindActive(w, <<"a">>, token, NoToken)
    \/ UnsubscribeSteps(Serial)
    \/ \E w \in Serial, password \in Passwords :
            BeginUpgrade(w, UpgradeLink(<<" ", "A">>), password, FALSE)
    \/ \E w \in Serial : MirrorPremium(w, FALSE)
    \/ \E status \in PlanStatuses : SetPremium(<<"a">>, status, NoTime)

SpecGate == Init /\ [][NextGate]_vars

-----------------------------------------------------------------------------
(* Properties of the subscription registry *)

NormEmail(email) == Strip(Lower(email))

Rows == 1..Len(subs)

RowsOf(s, e) == { i \in 1..Len(s) : s[i].email = e }

ActiveRowsOf(s, e) == { i \in RowsOf(s, e) : s[i].status = "active" }

\* The body of an unauthenticated subscribe request of type all.
AllPayload(email) ==
    [email |-> email, subscriptionType |-> "all", selectedServices |-> <<>>, user_id |-> <<>>]

\* C1: after any sequence of create_subscription, unsubscribe,
\* create_unsubscribe_verification and verify_and_unsubscribe calls served one
\* at a time from an empty store, every stored email is in normalized form and
\* no normalized email has more than one row with status active.
C1_AtMostOneActivePerEmail ==
    /\ \A i \in Rows : subs[i].email = NormEmail(subs[i].email)
    /\ \A i, j \in Rows :
          (subs[i].email = subs[j].email
             /\ subs[i].status = "active" /\ subs[j].status = "active") => i = j

\* C1 witness: one email is active again after an unsubscribe and holds a
\* pending verification, another was unsubscribed by verification, and a
\* further create for the active email is turned down as a duplicate.
C1_Witness ==
    \E i, j \in Rows :
        /\ subs[i].status = "active"
        /\ subs[i].unsubscribe_verification_token # NoToken
        /\ subs[j].status = "unsubscribed"
        /\ subs[j].unsubscribe_method = "email_verification"
        /\ \E data \in SpecPayloads :
              /\ NormEmail(data.email) = subs[i].email
              /\ data.email # subs[i].email
              /\ create_subscription(subs, data, NoAuth).result.code = "DUPLICATE_EMAIL"

\* C3: create, unsubscribe with the permanent token, create again.  From every
\* reachable state, for every create that succeeds: the unsubscribe with the
\* token it returned succeeds and keeps the row's id and token; the same create
\* made again succeeds, as does a type-all create for the email, and reports a
\* reactivation with the id and the permanent token of the first; it adds no
\* row, so that the email has the rows it had after the first create: exactly
\* one when it had at most one before.
C3_RoundTripReusesIdAndToken ==
    \A data \in Payloads :
        \A auth_user \in (IF data.subscriptionType = "filtered" THEN AuthUsers ELSE {NoAuth}) :
            LET e == NormEmail(data.email)
                first == create_subscription(subs, data, auth_user)
                u == unsubscribe(first.store, data.email, first.result.unsubscribe_token)
            IN  first.result.success =>
                   /\ \E i \in RowsOf(first.store, e) :
                         /\ first.store[i].id = first.result.id
                         /\ first.store[i].unsubscribe_token = first.result.unsubscribe_token
                         /\ ActiveRowsOf(first.store, e) = {i}
                         /\ u.store[i].id = first.result.id
                         /\ u.store[i].unsubscribe_token = first.result.unsubscribe_token
                         /\ u.store[i].status = "unsubscribed"
                   /\ u.result.success
                   /\ Len(u.store) = Len(first.store)
                   /\ \A again \in {<<data, auth_user>>, <<AllPayload(data.email), NoAuth>>} :
                         LET second == create_subscription(u.store, again[1], again[2])
                         IN  /\ second.result.success
                             /\ second.result.reactivated
                             /\ second.result.id = first.result.id
                             /\ second.result.unsubscribe_token = first.result.unsubscribe_token
                             /\ Len(second.store) = Len(first.store)
                             /\ RowsOf(second.store, e) = RowsOf(first.store, e)
                             /\ Cardinality(RowsOf(subs, e)) <= 1 =>
                                    Cardinality(RowsOf(second.store, e)) = 1
                             /\ \E i \in ActiveRowsOf(second.store, e) :
                                   /\ ActiveRowsOf(second.store, e) = {i}
                                   /\ second.store[i].id = first.result.id
                                   /\ second.store[i].unsubscribe_token
                                         = first.result.unsubscribe_token
                                   /\ second.store[i].subscriptionType = again[1].subscriptionType
                                   /\ second.store[i].selectedServices = again[1].selectedServices

\* C3 witness: a row was inserted, unsubscribed with its permanent token, and
\* the next create for its email (here of another type) reactivates it.
C3_Witness ==
    \E i \in Rows :
        /\ subs[i].status = "unsubscribed"
        /\ subs[i].unsubscribed_at
        /\ subs[i].unsubscribe_method = "none"
        /\ subs[i].subscriptionType = "all"
        /\ \E data \in Payloads :
              /\ NormEmail(data.email) = subs[i].email
              /\ data.subscriptionType = "filtered"
              /\ LET r == create_subscription(subs, data, Identity(subs[i].email, <<"U">>, <<>>, "free"))
                 IN  r.result.success /\ r.result.reactivated /\ r.result.id = subs[i].id

\* C10: unsubscribe(email, token) succeeds exactly when an active row matches
\* the normalized email and the permanent token; on success that row, and only
\* that row, becomes unsubscribed; in every other case the store is unchanged;
\* repeating a successful unsubscribe fails and changes nothing.
C10_UnsubscribeExactlyOnMatch ==
    \A email \in RawEmails, token \in UnsubscribeTokens :
        LET r == unsubscribe(subs, email, token)
            hits == { i \in Rows : /\ subs[i].email = NormEmail(email)
                                   /\ subs[i].unsubscribe_token = token
                                   /\ subs[i].status = "active" }
            again == unsubscribe(r.store, email, token)
        IN  /\ r.result.success <=> hits # {}
            /\ r.result.success =>
                  \E i \in hits :
                      r.store = [subs EXCEPT ![i] = [@ EXCEPT !.status = "unsubscribed",
                                                              !.unsubscribed_at = TRUE]]
            /\ ~r.result.success => r.store = subs
            /\ ~again.result.success
            /\ again.store = r.store

\* C10 witness: a row was unsubscribed with its permanent token, the same token
\* is now refused, and another email is still active.
C10_Witness ==
    \E i, j \in Rows :
        /\ subs[i].status = "unsubscribed"
        /\ subs[i].unsubscribed_at
        /\ subs[i].unsubscribe_method = "none"
        /\ subs[j].status = "active"
        /\ unsubscribe(subs, subs[i].email, subs[i].unsubscribe_token).result.code = "NOT_FOUND"
        /\ unsubscribe(subs, subs[i].email, subs[j].unsubscribe_token).result.code = "NOT_FOUND"

-----------------------------------------------------------------------------
(* SpecConc: two request handlers inside create_subscription at the same   *)
(* time.  Every call on the collection is one step; the steps of the two   *)
(* handlers interleave freely.  The collection has no unique index, so     *)
(* insert_one never raises DuplicateKeyError.                              *)

NextConc ==
    \/ \E w \in Workers, data \in SpecPayloads : BeginCreate(w, data, NoAuth)
    \/ CreateSteps(Workers)
    \/ \E w \in Workers, email \in RawEmails, token \in UnsubscribeTokens :
            FindActive(w, email, token, NoToken)
    \/ UnsubscribeSteps(Workers)

SpecConc == Init /\ [][NextConc]_vars

-----------------------------------------------------------------------------
(* Properties of the premium gate *)

Unchanged(r) == ~r.result.success /\ r.store = subs

\* The registry resolves the email to the premium tier with an active status.
ResolvesPremium(e) ==
    LET p == user_get_plan(e) IN p.plan = "premium" /\ p.plan_status = "active"

\* C4 as stated: a filtered create without an identity answers AUTH_REQUIRED
\* for every payload in every reachable state.
C4_AuthRequiredInEveryState ==
    \A data \in Payloads :
        data.subscriptionType = "filtered" =>
            create_subscription(subs, data, NoAuth).result.code = "AUTH_REQUIRED"

\* C4 amended: a filtered create without an identity never succeeds and writes
\* nothing; it answers AUTH_REQUIRED when the email has no active row, and
\* DUPLICATE_EMAIL, from the earlier check, when it has one.
C4_AuthRequiredUnlessDuplicate ==
    \A data \in Payloads :
        data.subscriptionType = "filtered" =>
            LET r == create_subscription(subs, data, NoAuth)
            IN  /\ Unchanged(r)
                /\ r.result.code =
                      IF ActiveRowsOf(subs, NormEmail(data.email)) # {}
                      THEN "DUPLICATE_EMAIL" ELSE "AUTH_REQUIRED"

\* C4 witness: an email is premium and all its rows are unsubscribed, so that
\* only the missing identity stops a filtered create for it.
C4_Witness ==
    \E i \in Rows, data \in Payloads :
        /\ subs[i].status = "unsubscribed"
        /\ ActiveRowsOf(subs, subs[i].email) = {}
        /\ ResolvesPremium(subs[i].email)
        /\ NormEmail(data.email) = subs[i].email
        /\ data.subscriptionType = "filtered"
        /\ data.user_id # <<>>
        /\ create_subscription(subs, data, NoAuth).result.code = "AUTH_REQUIRED"

\* C5 as stated: a filtered create succeeds only for an identity whose
\* normalized email claim is the request's email, and with an identity whose
\* email claim differs from it (an empty or absent claim included) the call is
\* rejected and writes nothing.
C5_FilteredOnlyForOwnEmail ==
    \A data \in Payloads, auth_user \in AuthUsers :
        data.subscriptionType = "filtered" =>
            LET r == create_subscription(subs, data, auth_user)
                own == auth_user.present
                       /\ NormEmail(auth_user.email) = NormEmail(data.email)
            IN  /\ r.result.success => own
                /\ (auth_user.present /\ ~own) => Unchanged(r)

\* C6 as stated: with an identity for the same email, a filtered create
\* answers PREMIUM_REQUIRED whenever the registry does not resolve the email to
\* premium/active.
C6_PremiumRequiredInEveryState ==
    \A data \in Payloads, auth_user \in AuthUsers :
        ( /\ data.subscriptionType = "filtered"
          /\ auth_user.present
          /\ NormEmail(auth_user.email) = NormEmail(data.email)
          /\ ~ResolvesPremium(NormEmail(data.email)) ) =>
            create_subscription(subs, data, auth_user).result.code = "PREMIUM_REQUIRED"

\* C6 amended: with an identity for the same email, whenever the registry does
\* not resolve the email to premium/active a filtered create never succeeds
\* and writes nothing; it answers PREMIUM_REQUIRED when the email has no active
\* row and DUPLICATE_EMAIL when it has one.  The answer is the same whatever
\* plan snapshot the identity carries.
C6_PremiumRequiredUnlessDuplicate ==
    \A data \in Payloads, auth_user \in AuthUsers :
        ( /\ data.subscriptionType = "filtered"
          /\ auth_user.present
          /\ NormEmail(auth_user.email) = NormEmail(data.email) ) =>
            LET r == create_subscription(subs, data, auth_user)
            IN  /\ ~ResolvesPremium(NormEmail(data.email)) =>
                   /\ Unchanged(r)
                   /\ r.result.code =
                         IF ActiveRowsOf(subs, NormEmail(data.email)) # {}
                         THEN "DUPLICATE_EMAIL" ELSE "PREMIUM_REQUIRED"
                /\ \A p \in {"free", "premium"} :
                      create_subscription(subs, data,
                          Identity(auth_user.email, auth_user.sub, auth_user.user_id, p)) = r

\* C6 witness: the entitlement of an email was switched off, the email has no
\* active row, and a filtered create with an identity for that email whose
\* token snapshot still says premium/active is answered PREMIUM_REQUIRED.
C6_Witness ==
    \E e \in NormEmails, data \in Payloads :
        /\ premium[e].exists /\ premium[e].status = "inactive"
        /\ ActiveRowsOf(subs, e) = {} /\ RowsOf(subs, e) # {}
        /\ NormEmail(data.email) = e
        /\ data.subscriptionType = "filtered"
        /\ LET auth_user == Identity(e, <<"U">>, <<>>, "premium")
           IN  /\ auth_user.plan = "premium" /\ auth_user.plan_status = "active"
               /\ create_subscription(subs, data, auth_user).result.code = "PREMIUM_REQUIRED"

-----------------------------------------------------------------------------
(* Properties of concurrent creates *)

\* C2 as stated: while two create_subscription calls interleave their reads
\* and writes, no two distinct rows with the same email are both active.
C2_NoTwoActiveRowsConcurrent ==
    \A i, j \in Rows :
        (i < j /\ subs[i].email = subs[j].email) =>
            ~(subs[i].status = "active" /\ subs[j].status = "active")

-----------------------------------------------------------------------------
(* SpecTok: the token service under a clock.  Tokens are issued, travel to  *)
(* the client and come back for verification, next to tokens the service   *)
(* never issued.                                                           *)

Purposes == {"upgrade", "signup"}

\* Claims somebody else signed, far from expiry.
ForeignClaims ==
    [NoClaims EXCEPT !.sub = <<"a">>, !.email = <<"a">>, !.purpose = "upgrade",
                     !.iat = 0, !.exp = Seconds(Days(JWT_TTL_DAYS + 1))]

\* Tokens the service did not issue: none at all, a string that is no JWT,
\* and well-formed tokens signed with the deployment's key or another one;
\* among the first, one whose iat lies a second ahead and one without exp.
ExternalTokens ==
    { NoJwt, GarbageJwt,
      [kind |-> "jwt", key |-> "k1", claims |-> ForeignClaims],
      [kind |-> "jwt", key |-> "k2", claims |-> ForeignClaims],
      [kind |-> "jwt", key |-> "k1", claims |-> [ForeignClaims EXCEPT !.iat = 1]],
      [kind |-> "jwt", key |-> "k1", claims |-> [ForeignClaims EXCEPT !.exp = NoTime]] }

\* Every token a client may present.
PresentedTokens == { w.token : w \in wire } \cup ExternalTokens

InitTok ==
    /\ InitRegistry
    /\ secret \in {"", "k1"}
    /\ wire = {}
    /\ out = Verified("none", NoClaims)

\* An issuing call: the token leaves for the client, with a note of the call.
IssueUpTo(r, purpose, ttl, extra, max) ==
    /\ r.raised \/ Cardinality(wire) < max
    /\ wire' = IF r.raised THEN wire
               ELSE wire \cup { [token |-> r.token, by |-> r.op, issued |-> now,
                                 purpose |-> purpose, ttl |-> ttl, overrides |-> Keys(extra)] }
    /\ out' = [op |-> r.op, raised |-> r.raised, payload |-> r.token.claims]
    /\ UNCHANGED <<subs, users, premium, nver, now, ticks, procs, secret>>

Issue(r, purpose, ttl, extra) == IssueUpTo(r, purpose, ttl, extra, MaxWire)

\* auth_signup / upgrade_confirm -> create_token
IssueSession(user, plan) ==
    Issue(create_token(user, plan, now), NoneStr, Days(JWT_TTL_DAYS), {})

\* create_action_token, called with the default lifetime
IssueAction(email, purpose, extra) ==
    Issue(create_action_token(email, purpose, ACTION_TTL_MINUTES, extra, now),
          purpose, Minutes(ACTION_TTL_MINUTES), extra)

\* auth_me / plan_status / subscribe -> verify_token
VerifySession(token) ==
    /\ out' = verify_token(token, now)
    /\ UNCHANGED <<subs, users, premium, nver, now, ticks, procs, secret, wire>>

\* upgrade_confirm -> verify_action_token
VerifyAction(token, purpose) ==
    /\ out' = verify_action_token(token, purpose, now)
    /\ UNCHANGED <<subs, users, premium, nver, now, ticks, procs, secret, wire>>

NextTok ==
    \/ \E user \in { [id |-> <<"U">>, email |-> <<"a">>, plan |-> "free", plan_status |-> "inactive"] },
          plan \in { [plan |-> "premium", plan_status |-> "active", status |-> NoneStr],
                     [plan |-> "premium", plan_status |-> "active", plan_expires_at |-> Days(JWT_TTL_DAYS)] } :
            IssueSession(user, plan)
    \/ \E email \in { <<" ", "A">> },
          purpose \in Purposes,
          extra \in { {}, {<<"purpose", "signup">>} } :
            IssueAction(email, purpose, extra)
    \/ \E token \in PresentedTokens : VerifySession(token)
    \/ \E token \in PresentedTokens, purpose \in Purposes : VerifyAction(token, purpose)
    \/ \E d \in {1, Minutes(ACTION_TTL_MINUTES) - 1, Days(JWT_TTL_DAYS) - 1} : Tick(d)

SpecTok == InitTok /\ [][NextTok]_vars

-----------------------------------------------------------------------------
(* Properties of the token service *)

\* Tokens create_action_token issued under the purpose it was asked for, and
\* tokens create_token issued.
ActionEntries ==
    { w \in wire : w.by = "create_action_token" /\ "purpose" \notin w.overrides }

SessionEntries == { w \in wire : w.by = "create_token" }

\* The instant the exp claim of an issued token names: the second the token
\* was issued in, plus its lifetime.
ExpClaim(w) == Seconds(w.issued) * TicksPerSecond + w.ttl

\* C7: an action token issued for purpose A is rejected under every other
\* purpose B at any time; verify_action_token never raises, and it answers a
\* payload only for a well-formed token signed with the configured secret,
\* not issued in the future and not yet expired, whose purpose claim is the
\* expected purpose, and then the payload is the token's claims.
C7_PurposeIsolation ==
    \A B \in Purposes :
        /\ \A w \in ActionEntries :
              w.purpose # B => verify_action_token(w.token, B, now).payload = NoClaims
        /\ \A x \in PresentedTokens :
              LET r == verify_action_token(x, B, now)
              IN  /\ ~r.raised
                  /\ r.payload # NoClaims =>
                        /\ x.kind = "jwt" /\ secret # "" /\ x.key = secret
                        /\ x.claims.iat # NoTime => x.claims.iat * TicksPerSecond <= now
                        /\ x.claims.exp # NoTime => now < x.claims.exp * TicksPerSecond
                        /\ x.claims.purpose = B
                        /\ r.payload = x.claims

\* C7 witness: time has passed since an action token was issued, the token is
\* not expired, its own purpose is accepted and the other purpose is refused.
C7_Witness ==
    \E w \in ActionEntries, B \in Purposes :
        /\ w.issued < now /\ now < ExpClaim(w)
        /\ w.purpose # B
        /\ verify_action_token(w.token, w.purpose, now).payload = w.token.claims
        /\ verify_action_token(w.token, B, now).payload = NoClaims

\* C8 as stated: an action token issued at t with lifetime ttl verifies (right
\* purpose, right signature) at every time strictly before t + ttl, is refused
\* at every time after t + ttl, and once refused is never accepted again.
C8_ExpiryAtIssuePlusTtl ==
    [][ \A w \in ActionEntries :
          LET r == verify_action_token(w.token, w.purpose, now).payload
              later == verify_action_token(w.token, w.purpose, now').payload
          IN  /\ now < w.issued + w.ttl => r # NoClaims
              /\ now > w.issued + w.ttl => r = NoClaims
              /\ r = NoClaims => later = NoClaims ]_vars

\* C8 amended: the token's expiry is t cut to the whole second, plus ttl.  The
\* token verifies (right purpose, right signature) at every time strictly
\* before that instant and is refused from that instant on, which is up to a
\* second before t + ttl; once refused it is never accepted again.
C8_ExpiryAtExpClaim ==
    [][ \A w \in ActionEntries :
          LET r == verify_action_token(w.token, w.purpose, now).payload
              later == verify_action_token(w.token, w.purpose, now').payload
          IN  /\ now < ExpClaim(w) => r = w.token.claims /\ r # NoClaims
              /\ now >= ExpClaim(w) => r = NoClaims
              /\ r = NoClaims => later = NoClaims ]_vars

\* C8 witness: an action token issued inside a second is refused at an instant
\* that lies at or after its exp claim and still before t + ttl.
C8_Witness ==
    \E w \in ActionEntries :
        /\ ExpClaim(w) <= now /\ now < w.issued + w.ttl
        /\ verify_action_token(w.token, w.purpose, now).payload = NoClaims

\* C9 as stated: verify_token never raises; it answers None for a missing
\* token, an unset secret, a signature that does not verify and a session
\* token past issued-at plus 30 days; for a session token in any other case
\* it answers the payload create_token embedded.  The instant issued-at plus
\* 30 days itself is left open here: either answer satisfies the formula.
C9_SessionNoneOnlyPastThirtyDays ==
    /\ \A x \in PresentedTokens :
          LET r == verify_token(x, now)
          IN  /\ ~r.raised
              /\ (x.kind = "missing" \/ secret = "" \/ x.key # secret) => r.payload = NoClaims
    /\ \A w \in SessionEntries :
          LET r == verify_token(w.token, now).payload
          IN  /\ now > w.issued + Days(JWT_TTL_DAYS) => r = NoClaims
              /\ now < w.issued + Days(JWT_TTL_DAYS) => r = w.token.claims

\* C9 amended: verify_token never raises; it answers None for a missing token,
\* an unset secret, a signature that does not verify and a session token whose
\* exp claim (issued-at cut to the whole second, plus 30 days) the clock has
\* reached; for a session token in any other case it answers the payload
\* create_token embedded.
C9_SessionNoneFromExpClaim ==
    /\ \A x \in PresentedTokens :
          LET r == verify_token(x, now)
          IN  /\ ~r.raised
              /\ (x.kind = "missing" \/ secret = "" \/ x.key # secret) => r.payload = NoClaims
    /\ \A w \in SessionEntries :
          /\ w.ttl = Days(JWT_TTL_DAYS)
          /\ verify_token(w.token, now).payload =
                IF now >= ExpClaim(w) THEN NoClaims ELSE w.token.claims
          /\ w.token.claims # NoClaims

\* C9 witness: a session token issued inside a second is refused at an instant
\* at or after its exp claim and still before issued-at plus 30 days.
C9_Witness ==
    \E w \in SessionEntries :
        /\ ExpClaim(w) <= now /\ now < w.issued + Days(JWT_TTL_DAYS)
        /\ verify_token(w.token, now) = Verified("verify_token", NoClaims)

-----------------------------------------------------------------------------
(* Properties of the unsubscribe paths *)

\* The answer of POST /unsubscribe to a permanent token.
UnsubscribeResponse(email, token) ==
    unsubscribe_do_POST(subs, [email |-> email, token |-> token,
                               verify |-> NoToken, verify_only |-> FALSE])

\* C11: a wrong token for an email with an active row and the right token of an
\* unsubscribed row get the same manager result and the same HTTP answer, and
\* both leave the store as it is; the answer is the one an unknown token gets.
C11_WrongTokenLikeUnsubscribed ==
    \A i, j \in Rows, token \in UnsubscribeTokens \ {NoToken} :
        ( /\ subs[i].status = "active" /\ token # subs[i].unsubscribe_token
          /\ ActiveRowsOf(subs, subs[i].email) = {i}
          /\ subs[j].status = "unsubscribed"
          /\ ActiveRowsOf(subs, subs[j].email) = {} ) =>
            LET wrong == unsubscribe(subs, subs[i].email, token)
                stale == unsubscribe(subs, subs[j].email, subs[j].unsubscribe_token)
            IN  /\ wrong.result = stale.result
                /\ ~wrong.result.success
                /\ wrong.store = subs /\ stale.store = subs
                /\ UnsubscribeResponse(subs[i].email, token)
                      = UnsubscribeResponse(subs[j].email, subs[j].unsubscribe_token)
                /\ UnsubscribeResponse(subs[i].email, token).response.status = 400

\* C11 witness: one email is active and another is unsubscribed, and a token
\* other than the active row's own exists to be tried.
C11_Witness ==
    \E i, j \in Rows, token \in UnsubscribeTokens \ {NoToken} :
        /\ subs[i].status = "active" /\ token # subs[i].unsubscribe_token
        /\ subs[j].status = "unsubscribed"
        /\ ~unsubscribe(subs, subs[i].email, token).result.success
        /\ ~unsubscribe(subs, subs[j].email, subs[j].unsubscribe_token).result.success

\* C12: create_unsubscribe_verification fails and writes nothing for an email
\* with no active row, and POST /request-unsubscribe answers 404; when it
\* succeeds the token it stores replaces the pending one of the row:
\* verify_and_unsubscribe then accepts the new token, and rejects every token
\* no active row of the email holds, the replaced one included, as invalid,
\* leaving the row active; after a second request the first request's token is
\* rejected in the same way and the second's is accepted.
C12_RequestNeedsActiveAndReplacesToken ==
    \A email \in RawEmails :
        LET e == NormEmail(email)
            r == create_unsubscribe_verification(subs, email, nver + 1)
            new == r.result.verification_token
        IN  IF ActiveRowsOf(subs, e) = {}
            THEN /\ ~r.result.success /\ r.result.code = "NO_ACTIVE_SUBSCRIPTION"
                 /\ r.store = subs
                 /\ \A email_sent \in BOOLEAN :
                       LET h == request_unsubscribe_do_POST(subs, email, nver + 1, email_sent)
                       IN  h.response.status = 404 /\ h.store = subs
            ELSE LET i == FindOne(subs, LAMBDA row : row.email = e /\ row.status = "active")
                     second == create_unsubscribe_verification(r.store, email, nver + 2)
                     first == verify_and_unsubscribe(second.store, email, new)
                 IN  /\ r.result.success /\ new = generate_verification_token(nver + 1)
                     /\ r.store[i].unsubscribe_verification_token = new
                     /\ verify_and_unsubscribe(r.store, email, new).result.success
                     /\ \A old \in (VerificationTokens \ {NoToken, new}) :
                           (\A k \in ActiveRowsOf(subs, e) \ {i} :
                               subs[k].unsubscribe_verification_token # old) =>
                               LET v == verify_and_unsubscribe(r.store, email, old)
                               IN  /\ v.result.code = "INVALID_LINK"
                                   /\ v.store = r.store
                                   /\ v.store[i].status = "active"
                     /\ second.result.success
                     /\ second.result.verification_token = generate_verification_token(nver + 2)
                     /\ verify_and_unsubscribe(second.store, email,
                            second.result.verification_token).result.success
                     /\ first.result.code = "INVALID_LINK"
                     /\ first.store = second.store
                     /\ first.store[i].status = "active"

\* C12 witness: an active row holds a pending verification token that is still
\* accepted; a second request succeeds and the earlier token is then rejected.
C12_Witness ==
    \E i \in Rows :
        LET old == subs[i].unsubscribe_verification_token
            r == create_unsubscribe_verification(subs, subs[i].email, nver + 1)
        IN  /\ subs[i].status = "active" /\ old # NoToken
            /\ verify_and_unsubscribe(subs, subs[i].email, old).result.success
            /\ r.result.success
            /\ verify_and_unsubscribe(r.store, subs[i].email, old).result.code = "INVALID_LINK"

\* C13: a verification token is stored with an expiry 15 minutes after the
\* request; presenting the matching pending token at a time later than that
\* expiry fails as expired, which is another error than the one a token
\* gets that no active row of the email holds, and the store is unchanged,
\* the row still active.
C13_ExpiredTokenRejected ==
    /\ \A email \in RawEmails :
          LET r == create_unsubscribe_verification(subs, email, nver + 1)
          IN  r.result.success =>
                 /\ r.result.expiry_time = now + Minutes(15)
                 /\ \E i \in ActiveRowsOf(r.store, NormEmail(email)) :
                       r.store[i].verification_token_expiry = now + Minutes(15)
    /\ \A i \in Rows :
          ( /\ subs[i].status = "active"
            /\ subs[i].unsubscribe_verification_token # NoToken
            /\ now > subs[i].verification_token_expiry ) =>
              LET v == verify_and_unsubscribe(subs, subs[i].email,
                                              subs[i].unsubscribe_verification_token)
              IN  /\ ~v.result.success /\ v.result.code = "LINK_EXPIRED"
                  /\ v.store = subs
                  /\ subs[i].status = "active"
                  /\ \A other \in VerificationTokens \ {NoToken} :
                        (\A k \in ActiveRowsOf(subs, subs[i].email) :
                            subs[k].unsubscribe_verification_token # other) =>
                            /\ verify_and_unsubscribe(subs, subs[i].email, other).result.code
                                  = "INVALID_LINK"
                            /\ v.result # verify_and_unsubscribe(subs, subs[i].email, other).result

\* C13 witness: an active row holds a pending token whose expiry has passed.
C13_Witness ==
    \E i \in Rows :
        /\ subs[i].status = "active"
        /\ subs[i].unsubscribe_verification_token # NoToken
        /\ now > subs[i].verification_token_expiry
        /\ verify_and_unsubscribe(subs, subs[i].email,
                                  subs[i].unsubscribe_verification_token).result.code
              = "LINK_EXPIRED"

\* Verification tokens handed out so far, and whether no row holds one.
IssuedVerificationTokens == { generate_verification_token(n) : n \in 1..nver }

Spent(s, token) == \A i \in 1..Len(s) : s[i].unsubscribe_verification_token # token

\* C14: a successful verify_and_unsubscribe leaves the row unsubscribed with
\* no verification token and no expiry, so the token is then on no row; a
\* token handed out that is on no row is accepted for no email and stays on
\* no row in every later state, whatever is done, reactivation included.
C14_VerificationTokenSingleUse ==
    [][ \A email \in RawEmails, token \in IssuedVerificationTokens :
          LET v == verify_and_unsubscribe(subs, email, token)
          IN  /\ v.result.success =>
                 /\ Spent(v.store, token)
                 /\ \A i \in Rows : subs[i].unsubscribe_verification_token = token =>
                       /\ v.store[i].status = "unsubscribed"
                       /\ v.store[i].unsubscribe_verification_token = NoToken
                       /\ v.store[i].verification_token_expiry = NoTime
                 /\ ~verify_and_unsubscribe(v.store, email, token).result.success
              /\ Spent(subs, token) =>
                 /\ ~v.result.success
                 /\ Spent(subs', token) ]_vars

\* C14 witness: the only verification token handed out went to the only row,
\* was used to unsubscribe it, and the row has been reactivated since; the
\* token is not accepted.
C14_Witness ==
    /\ Len(subs) = 1 /\ nver = 1
    /\ subs[1].status = "active"
    /\ Spent(subs, generate_verification_token(1))
    /\ ~verify_and_unsubscribe(subs, subs[1].email, generate_verification_token(1)).result.success

\* ---------------------------------------------------------------------------
\* The user registry on its own: sign-up, upgrade and entitlement writes
\* ---------------------------------------------------------------------------

UserEmails == RawEmails \cup {<<>>}

UserPasswords == {"", "pw1", "pw2"}

NextUsers ==
    \/ \E w \in Workers, email \in UserEmails, password \in UserPasswords :
            BeginSignup(w, email, password)
    \/ \E w \in Workers, email \in UserEmails, password \in UserPasswords :
            BeginUpgrade(w, UpgradeLink(email), password, FALSE)
    \/ \E w \in Workers : MirrorPremium(w, FALSE)
    \/ PlanSteps(Workers)
    \/ \E email \in UserEmails, status \in PlanStatuses, expires_at \in {NoTime, Days(JWT_TTL_DAYS)} :
            SetPremium(email, status, expires_at)

SpecUsers == Init /\ [][NextUsers]_vars

\* ---------------------------------------------------------------------------
\* Properties of the user registry
\* ---------------------------------------------------------------------------

PlanOf(rec) ==
    [plan |-> rec.plan, plan_status |-> rec.plan_status, plan_expires_at |-> rec.plan_expires_at]

\* C15: resolve_plan(email) returns the plan, status and expiry of the premium
\* entitlement record of the normalized email when that record exists with
\* status active; otherwise the plan fields of the user record; and
\* {free, inactive, no expiry} when there is no user record either. This is
\* so for every combination of the two records.
C15_ResolvePlanPrecedence ==
    \A email \in RawEmails :
        LET e == Lower(Strip(email))
            r == user_get_plan(email)
        IN  IF premium[e].exists /\ premium[e].status = "active"
            THEN r = [plan |-> premium[e].plan, plan_status |-> premium[e].status,
                      plan_expires_at |-> premium[e].plan_expires_at]
            ELSE IF users[e].exists THEN r = PlanOf(users[e])
            ELSE r = [plan |-> "free", plan_status |-> "inactive", plan_expires_at |-> NoTime]

\* An inactive premium record with an expiry beside a user record that says
\* premium: the user record is what resolves.
C15_Witness ==
    /\ premium[<<"a">>].exists
    /\ premium[<<"a">>].status = "inactive"
    /\ premium[<<"a">>].plan_expires_at # NoTime
    /\ users[<<"a">>].exists
    /\ users[<<"a">>].plan = "premium"
    /\ user_get_plan(<<" ", "A">>) = PlanOf(users[<<"a">>])
    /\ premium[<<"b">>].exists
    /\ premium[<<"b">>].status = "active"
    /\ ~users[<<"b">>].exists
    /\ user_get_plan(<<"b">>).plan = "premium"

NewFreeUser(password) ==
    [exists |-> TRUE, password_hash |-> hash_password(password),
     plan |-> "free", plan_status |-> "inactive", plan_expires_at |-> NoTime]

\* C16: create(email, password) with a non-empty email stores a new user with
\* plan free and status inactive under the trimmed, lower-cased email; it
\* fails with the duplicate-email error when a user with that normalized
\* email exists, whatever the case or surrounding whitespace of the email
\* given, and with a validation error when the password is empty; a failing
\* create leaves every user, password and plan field as it was.
C16_CreateUserNormalizedAndUnique ==
    \A email \in UserEmails, password \in UserPasswords :
        LET e == Lower(Strip(email))
            r == create_user(email, password)
        IN  /\ (e # <<>> /\ password = "") =>
                   (~r.ok /\ r.error = "Password is required")
            /\ (e # <<>> /\ password # "" /\ users[e].exists) =>
                   (~r.ok /\ r.error = "Email already exists")
            /\ (e # <<>> /\ password # "" /\ ~users[e].exists) =>
                   /\ r.ok
                   /\ r.users[e] = NewFreeUser(password)
                   /\ \A o \in NormEmails \ {e} : r.users[o] = users[o]
            /\ ~r.ok => r.users = users

\* A user signed up as "a" is there, and a sign-up as " A" is refused.
C16_Witness ==
    /\ users[<<"a">>] = NewFreeUser("pw1")
    /\ ~create_user(<<" ", "A">>, "pw2").ok
    /\ create_user(<<" ", "A">>, "pw2").error = "Email already exists"
    /\ create_user(<<"b">>, "").error = "Password is required"
    /\ ~users[<<"b">>].exists
    /\ create_user(<<"b">>, "pw2").ok

\* The passwords a caller can present to authenticate.
GivenPasswords == UserPasswords \ {""}

\* C17: authenticate with a non-empty email and password returns exactly the
\* same failure for an unknown email as for a wrong password, and succeeds
\* only with the password most recently stored for the user by create or by
\* upgrade_with_password.
C17_AuthenticateUniformFailure ==
    /\ \A email \in RawEmails, password \in GivenPasswords :
           LET e == Lower(Strip(email))
               a == authenticate(users, email, password)
           IN  IF users[e].exists /\ users[e].password_hash = hash_password(password)
               THEN a.success /\ a.user = users[e]
               ELSE a = AuthResult(FALSE, "Invalid credentials", NoUser)
    /\ \A email \in RawEmails, password \in GivenPasswords, given \in GivenPasswords :
           LET c == create_user(email, password)
               u == upsert_premium_with_password(email, password)
           IN  /\ c.ok => (authenticate(c.users, email, given).success <=> given = password)
               /\ u.ok => (authenticate(u.users, email, given).success <=> given = password)

\* "a" is known with password pw2 stored over pw1, "b" is unknown: pw1 for
\* "a" and anything for "b" fail alike.
C17_Witness ==
    /\ users[<<"a">>].exists
    /\ users[<<"a">>].password_hash = hash_password("pw2")
    /\ ~users[<<"b">>].exists
    /\ authenticate(users, <<"a">>, "pw2").success
    /\ ~authenticate(users, <<"a">>, "pw1").success
    /\ authenticate(users, <<"a">>, "pw1") = authenticate(users, <<"b">>, "pw1")

PremiumUser(password) ==
    [exists |-> TRUE, password_hash |-> hash_password(password),
     plan |-> "premium", plan_status |-> "active", plan_expires_at |-> NoTime]

\* C18: after a successful upgrade_with_password(email, password) a user
\* exists for the normalized email, its password is the one given
\* (authenticate succeeds with it and fails with any other), the user record
\* and the premium record both say premium, active, no expiry, and
\* resolve_plan returns premium/active; with an empty email or an empty
\* password it fails and writes nothing.
C18_UpgradeSetsPasswordAndPremium ==
    \A email \in UserEmails, password \in UserPasswords :
        LET e == Lower(Strip(email))
            r == upsert_premium_with_password(email, password)
        IN  IF e = <<>> \/ password = ""
            THEN ~r.ok /\ r.users = users /\ r.premium = premium
            ELSE /\ r.ok
                 /\ r.users[e] = PremiumUser(password)
                 /\ r.premium[e] = [exists |-> TRUE, plan |-> "premium", status |-> "active",
                                    plan_expires_at |-> NoTime]
                 /\ authenticate(r.users, email, password).success
                 /\ \A other \in GivenPasswords \ {password} :
                        ~authenticate(r.users, email, other).success
                 /\ get_plan_in(r.users, r.premium, email) =
                        [plan |-> "premium", plan_status |-> "active", plan_expires_at |-> NoTime]
                 /\ \A o \in NormEmails \ {e} :
                        r.users[o] = users[o] /\ r.premium[o] = premium[o]

\* A free user with password pw1 and an inactive, expiring premium record has
\* been upgraded with pw2.
C18_Witness ==
    /\ users[<<"a">>] = PremiumUser("pw2")
    /\ premium[<<"a">>].exists
    /\ premium[<<"a">>].status = "active"
    /\ premium[<<"a">>].plan_expires_at = NoTime
    /\ ~authenticate(users, <<"a">>, "pw1").success
    /\ authenticate(users, <<" ", "A">>, "pw2").success
    /\ users[<<"b">>] = NewFreeUser("pw1")
    /\ premium[<<"b">>].status = "inactive"
    /\ premium[<<"b">>].plan_expires_at # NoTime
    /\ upsert_premium_with_password(<<"b">>, "pw2").ok

\* ---------------------------------------------------------------------------
\* POST /upgrade_confirm: the emailed link completes the upgrade
\* ---------------------------------------------------------------------------

ConfirmResponse(status, error, us, pr, token) ==
    [status |-> status, error |-> error, users |-> us, premium |-> pr, token |-> token]

\* Mutant: any token the service signed is taken, whatever its purpose.
upgrade_confirm_do_POST_any_purpose(token, password, t) ==
    LET d == jwt_decode(token, secret, t)
    IN  IF token.kind = "missing" \/ secret = "" \/ ~d.ok
        THEN ConfirmResponse(400, "Invalid or expired link", users, premium, NoJwt)
        ELSE LET email == Lower(Strip(d.payload.email))
                 result == upsert_premium_with_password(email, password)
             IN  IF ~result.ok
                 THEN ConfirmResponse(400, result.error, users, premium, NoJwt)
                 ELSE ConfirmResponse(200, "", result.users, result.premium, NoJwt)

\* handler.do_POST of upgrade_confirm, called at time t
upgrade_confirm_do_POST(token, password, t) ==
    LET payload == verify_action_token(token, "upgrade", t).payload
    IN  IF payload = NoClaims
        THEN ConfirmResponse(400, "Invalid or expired link", users, premium, NoJwt)
        ELSE LET email == Lower(Strip(payload.email))
                 result == upsert_premium_with_password(email, password)
             IN  IF ~result.ok
                 THEN ConfirmResponse(400, result.error, users, premium, NoJwt)
                 ELSE LET plan == get_plan_in(result.users, result.premium, email)
                          session == create_token(UserDoc(result.users, email), plan, t)
                      IN  IF session.raised
                          THEN ConfirmResponse(500, "create_token raised",
                                               result.users, result.premium, NoJwt)
                          ELSE ConfirmResponse(200, "", result.users, result.premium,
                                               session.token)

ConfirmPasswords == {"", "pw2"}

ConfirmTokens ==
    PresentedTokens
    \cup { [kind |-> "jwt", key |-> "k1", claims |-> [ForeignClaims EXCEPT !.email = e]] :
             e \in { <<" ", "B">>, <<>> } }

\* an action link is mailed
MailLink(email, purpose, extra) ==
    IssueUpTo(create_action_token(email, purpose, ACTION_TTL_MINUTES, extra, now),
              purpose, Minutes(ACTION_TTL_MINUTES), extra, MaxLinks)

NextConfirm ==
    \/ \E email \in { <<" ", "A">>, <<"b">> }, purpose \in Purposes,
          extra \in { {}, {<<"email", <<"b">>>>} } :
            MailLink(email, purpose, extra)
    \/ \E w \in Workers, email \in RawEmails : BeginSignup(w, email, "pw1")
    \/ \E w \in Workers, token \in ConfirmTokens, password \in ConfirmPasswords :
            BeginUpgrade(w, token, password, FALSE)
    \/ \E w \in Workers : MirrorPremium(w, FALSE)
    \/ PlanSteps(Workers)
    \/ \E d \in {1, Minutes(ACTION_TTL_MINUTES)} : Tick(d)

SpecConfirm == Init /\ [][NextConfirm]_vars

\* What makes a token an upgrade link at time t: signed with the deployment's
\* key, not issued in the future, not yet expired, purpose "upgrade".
IsUpgradeLink(token, t) ==
    /\ token.kind = "jwt"
    /\ token.key = secret
    /\ secret # ""
    /\ token.claims.iat # NoTime => token.claims.iat * TicksPerSecond <= t
    /\ token.claims.exp # NoTime => token.claims.exp * TicksPerSecond > t
    /\ token.claims.purpose = "upgrade"

\* C19: /upgrade_confirm changes user or premium state only when the token
\* presented verifies as an action token with purpose "upgrade"; with a
\* missing, malformed, expired, wrongly signed or other-purpose token, a valid
\* session token included, it answers 400 and changes nothing; and the email
\* upgraded is always the email claim of the token, trimmed and lower-cased.
C19_ConfirmOnlyWithUpgradeLink ==
    \A token \in ConfirmTokens, password \in ConfirmPasswords :
        LET r == upgrade_confirm_do_POST(token, password, now)
            e == Lower(Strip(token.claims.email))
        IN  /\ ~IsUpgradeLink(token, now) =>
                   (r.status = 400 /\ r.users = users /\ r.premium = premium)
            /\ \A o \in NormEmails :
                   (r.users[o] # users[o] \/ r.premium[o] # premium[o]) => o = e
            /\ (IsUpgradeLink(token, now) /\ e # <<>> /\ password # "") =>
                   /\ r.status = 200
                   /\ r.users[e] = PremiumUser(password)
                   /\ r.premium[e].exists /\ r.premium[e].status = "active"

\* "b" was upgraded with the link mailed for " A" whose email claim was
\* overridden to "b"; that link has since expired and is refused, as is the
\* session token and the link of another purpose.
C19_Witness ==
    /\ users[<<"b">>] = PremiumUser("pw2")
    /\ users[<<"a">>] = NewFreeUser("pw1")
    /\ ~premium[<<"a">>].exists
    /\ \E w \in wire :
           /\ w.by = "create_action_token"
           /\ w.purpose = "upgrade"
           /\ w.token.claims.sub = <<"a">>
           /\ w.token.claims.email = <<"b">>
           /\ ~IsUpgradeLink(w.token, now)
           /\ upgrade_confirm_do_POST(w.token, "pw2", now).status = 400

\* ---------------------------------------------------------------------------
\* The notification run: who is written to when changes are detected
\* ---------------------------------------------------------------------------

\* collection.find(query).sort('created_at', -1): the documents that match,
\* those built last first.  The store defines no order among documents with
\* the same created_at: every such order is an answer the find can give.
FindSorted(s, Match(_)) ==
    LET hits == { i \in 1..Len(s) : Match(s[i]) }
        n == Cardinality(hits)
        orders == { o \in [1..n -> hits] :
                      \A k, l \in 1..n :
                          k < l => /\ o[k] # o[l]
                                   /\ s[o[k]].created_at >= s[o[l]].created_at }
    IN  { [k \in 1..n |-> s[o[k]]] : o \in orders }

\* SubscriptionManager.get_active_subscriptions(filters): the answers the
\* find can give for {'status': 'active'} and, unless type is None, the
\* filter {'subscriptionType': type}.
get_active_subscriptions(s, type) ==
    FindSorted(s, LAMBDA row : /\ row.status = "active"
                               /\ type # NoneStr => row.subscriptionType = type)

\* Items of latest-changes.json; the feed does not promise a service name.
ChangeItems ==
    { [service |-> "Storage", region |-> "eastus"],
      [service |-> "Compute", region |-> "westus"],
      [region |-> "eastus"] }

ChangeLists ==
    {<<>>} \cup { <<c>> : c \in ChangeItems }
           \cup { <<[service |-> "Storage", region |-> "eastus"], c>> : c \in ChangeItems }

RecipientAll(email) ==
    [email |-> email, subscriptionType |-> "all", selectedServices |-> <<>>]

RecipientFiltered(sub) ==
    [email |-> sub.email, subscriptionType |-> "filtered",
     selectedServices |-> sub.selectedServices]

\* any(service in changed_services for service in selected_services), line 82
SelectionChanged(sub, changed_services) ==
    \E k \in 1..Len(sub.selectedServices) : sub.selectedServices[k] \in changed_services

\* The position in list of the last document with the email.
LastOf(list, email) ==
    CHOOSE i \in 1..Len(list) :
        /\ list[i].email = email
        /\ \A j \in 1..Len(list) : list[j].email = email => j <= i

\* Mutant: an email found in both lists keeps the all context.
recipients_dict_all_wins(all_subscribers, filtered_subscribers, changed_services) ==
    LET matching == SelectSeq(filtered_subscribers,
                              LAMBDA sub : SelectionChanged(sub, changed_services))
        emails_all == { all_subscribers[i].email : i \in 1..Len(all_subscribers) }
        emails_filtered == { matching[i].email : i \in 1..Len(matching) }
    IN  [e \in emails_all \cup emails_filtered |->
            IF e \in emails_filtered /\ e \notin emails_all
            THEN RecipientFiltered(matching[LastOf(matching, e)])
            ELSE RecipientAll(e)]

\* send_notifications, lines 69-88: the dict recipients, keyed by email.  The
\* loop over the type-all documents assigns the all entry; the loop over the
\* filtered documents assigns, for each whose selection names a changed
\* service, the filtered entry, so the last such document of an email stays.
recipients_dict(all_subscribers, filtered_subscribers, changed_services) ==
    LET matching == SelectSeq(filtered_subscribers,
                              LAMBDA sub : SelectionChanged(sub, changed_services))
        emails_all == { all_subscribers[i].email : i \in 1..Len(all_subscribers) }
        emails_filtered == { matching[i].email : i \in 1..Len(matching) }
    IN  [e \in emails_all \cup emails_filtered |->
            IF e \in emails_filtered
            THEN RecipientFiltered(matching[LastOf(matching, e)])
            ELSE RecipientAll(e)]

\* The documents the two loops of lines 72-88 assign an entry for, in the
\* order they visit them: the type-all documents, then the filtered documents
\* whose selection names a changed service.
VisitedRows(all_subscribers, filtered_subscribers, changed_services) ==
    all_subscribers
    \o SelectSeq(filtered_subscribers, LAMBDA sub : SelectionChanged(sub, changed_services))

\* Mutant: the recipients are collected in a list, one entry for every
\* document visited.
recipients_list_per_row(all_subscribers, filtered_subscribers, changed_services) ==
    LET dict == recipients_dict(all_subscribers, filtered_subscribers, changed_services)
        rows == VisitedRows(all_subscribers, filtered_subscribers, changed_services)
    IN  [k \in 1..Len(rows) |-> dict[rows[k].email]]

\* send_notifications, line 90: list(recipients.values()).  A dict keeps its
\* keys in the order of their first assignment.
recipients_list(all_subscribers, filtered_subscribers, changed_services) ==
    LET dict == recipients_dict(all_subscribers, filtered_subscribers, changed_services)
        rows == VisitedRows(all_subscribers, filtered_subscribers, changed_services)
        First(i) == \A j \in 1..(i - 1) : rows[j].email # rows[i].email
        firsts == SelectSeq([i \in 1..Len(rows) |-> i], First)
    IN  [k \in 1..Len(firsts) |-> dict[rows[firsts[k]].email]]

\* ---------------------------------------------------------------------------
\* EmailService.send_change_notification: scoped statistics and the send loop
\* ---------------------------------------------------------------------------

\* item.get('added_count', len(item.get('added_prefixes', [])))
AddedOf(item) == Get(item, "added_count", Len(Get(item, "added_prefixes", <<>>)))

\* item.get('removed_count', len(item.get('removed_prefixes', [])))
RemovedOf(item) == Get(item, "removed_count", Len(Get(item, "removed_prefixes", <<>>)))

\* item.get('service') in selected_services
InSelection(item, selected_services) ==
    /\ "service" \in DOMAIN item
    /\ \E k \in 1..Len(selected_services) : selected_services[k] = item.service

\* The accumulators of a loop over change_list after its first n items: the
\* loop of lines 141-146 over every item (scoped FALSE), and the loop of
\* lines 252-260 over the items of the selection (scoped TRUE).
RECURSIVE Accumulate(_, _, _, _)
Accumulate(change_list, n, scoped, selected_services) ==
    IF n = 0 THEN [changed |-> 0, regions |-> {}, added |-> 0, removed |-> 0]
    ELSE LET acc == Accumulate(change_list, n - 1, scoped, selected_services)
             item == change_list[n]
             region == Get(item, "region", "")
         IN  IF scoped /\ ~InSelection(item, selected_services) THEN acc
             ELSE [changed |-> acc.changed + 1,
                   regions |-> IF region # "" THEN acc.regions \cup {region} ELSE acc.regions,
                   added |-> acc.added + AddedOf(item),
                   removed |-> acc.removed + RemovedOf(item)]

Stats(services_changed, regions, added, removed) ==
    [services_changed |-> services_changed, regions |-> regions,
     added |-> added, removed |-> removed]

\* A JSON value with its type: an object (region -> count), an array, null.
JsonDict(m) == [type |-> "dict", value |-> m]

JsonList(l) == [type |-> "list", value |-> l]

JsonNull == [type |-> "null", value |-> <<>>]

\* regions_from_summary, lines 148-153: regional_changes is taken only when
\* it is a dict, and its non-zero entries are counted only when it is not
\* empty; else the regions of the items are.
regions_from_summary(changes) ==
    LET totals == Accumulate(changes.changes, Len(changes.changes), FALSE, <<>>)
        supplied == Get(changes, "regional_changes", JsonNull)
        regional_map == IF supplied.type = "dict" THEN supplied.value ELSE <<>>
    IN  IF DOMAIN regional_map # {}
        THEN Cardinality({ r \in DOMAIN regional_map : regional_map[r] # 0 })
        ELSE Cardinality(totals.regions)

\* Mutant: the selection is ignored.
scoped_stats_unscoped(changes, selected_services) ==
    LET totals == Accumulate(changes.changes, Len(changes.changes), FALSE, <<>>)
    IN  Stats(Len(changes.changes), regions_from_summary(changes),
              totals.added, totals.removed)

\* scoped_stats, lines 244-261, with the totals of lines 130-153 it closes over
scoped_stats(changes, selected_services) ==
    LET totals == Accumulate(changes.changes, Len(changes.changes), FALSE, <<>>)
        svc == Accumulate(changes.changes, Len(changes.changes), TRUE, selected_services)
    IN  IF selected_services = <<>>
        THEN Stats(Len(changes.changes), regions_from_summary(changes),
                   totals.added, totals.removed)
        ELSE Stats(svc.changed, Cardinality(svc.regions), svc.added, svc.removed)

Sent(returned, sends) ==
    [op |-> "send_change_notification", returned |-> returned, sends |-> sends]

\* Mutant: the first send that raises ends the batch.
RECURSIVE send_loop_aborts(_, _, _, _)
send_loop_aborts(recipients, changes, outcome, n) ==
    IF n = 0 THEN <<>>
    ELSE LET before == send_loop_aborts(recipients, changes, outcome, n - 1)
         IN  IF \E i \in 1..Len(before) : before[i].outcome = "raised" THEN before
             ELSE Append(before,
                         [email |-> recipients[n].email,
                          stats |-> scoped_stats(changes, recipients[n].selectedServices),
                          outcome |-> outcome[n]])

\* The loop of lines 263-367 over the first n recipients: what was handed to
\* the transport for each, and what the transport did with it.
RECURSIVE send_loop(_, _, _, _)
send_loop(recipients, changes, outcome, n) ==
    IF n = 0 THEN <<>>
    ELSE Append(send_loop(recipients, changes, outcome, n - 1),
                [email |-> recipients[n].email,
                 stats |-> scoped_stats(changes, recipients[n].selectedServices),
                 outcome |-> outcome[n]])

\* EmailService.send_change_notification; configured says whether a SendGrid
\* client exists, outcome what the transport does with the n-th message.
send_change_notification(recipients, changes, configured, outcome) ==
    IF ~configured THEN Sent(FALSE, <<>>)
    ELSE LET sends == send_loop(recipients, changes, outcome, Len(recipients))
             success_count == Cardinality({ i \in 1..Len(sends) : sends[i].outcome = "accepted" })
         IN  Sent(success_count > 0, sends)

\* ---------------------------------------------------------------------------
\* The notification run: scripts/send_notifications.py
\* ---------------------------------------------------------------------------

\* The mail service was not called.
NotSent == [op |-> "none", returned |-> FALSE, sends |-> <<>>]

\* What a run leaves: the value send_notifications returns, the exception
\* that reached its except clause (NoneStr when none did), the dict
\* recipients, and what the mail service did with the list handed to it.
Dispatched(returned, error, dict, mail) ==
    [op |-> "send_notifications", returned |-> returned,
     raised |-> error # NoneStr, error |-> error,
     recipients |-> dict, mail |-> mail]

\* The file the path names does not exist.
NoFile == [type |-> "missing", value |-> <<>>]

\* The file exists and reading it raises: json.load raises JSONDecodeError
\* on text that is not JSON (an empty file included), and the decoding of
\* open(..., encoding='utf-8') raises UnicodeDecodeError on bytes that are
\* not UTF-8.
Unreadable(exception) == [type |-> "unreadable", value |-> exception]

\* load_changes, lines 12-34, over the content of latest-changes.json and of
\* summary.json: the exception that leaves it (NoneStr when it returns) and
\* the value returned.  Without the changes file the answer is None; its
\* content is returned as loaded, and when the summary is a dict with the key
\* regional_changes that value is assigned into it (lines 25-30; on content
\* that is no dict the assignment raises and the except clause passes, as it
\* does on a summary that cannot be read).  json.load of the changes file is
\* outside the try block.
load_changes(changes_file, summary_file) ==
    IF changes_file.type = "missing" THEN [error |-> NoneStr, changes |-> JsonNull]
    ELSE IF changes_file.type = "unreadable"
    THEN [error |-> changes_file.value, changes |-> JsonNull]
    ELSE IF /\ summary_file.type = "dict"
            /\ "regional_changes" \in DOMAIN summary_file.value
            /\ changes_file.type = "dict"
    THEN [error |-> NoneStr,
          changes |-> JsonDict([k \in DOMAIN changes_file.value \cup {"regional_changes"} |->
                                   IF k = "regional_changes"
                                   THEN summary_file.value.regional_changes
                                   ELSE changes_file.value[k]])]
    ELSE [error |-> NoneStr, changes |-> changes_file]

\* not changes or not changes.get('changes'), line 52, for content on which
\* the test raises nothing: None, an empty list, a dict that is empty or has
\* no item under 'changes'.
NothingToNotify(changes) ==
    \/ changes.type = "null"
    \/ changes.type = "list" /\ changes.value = <<>>
    \/ /\ changes.type = "dict"
       /\ \/ "changes" \notin DOMAIN changes.value
          \/ changes.value.changes = <<>>

\* send_notifications, lines 56-108, for loaded changes with at least one
\* item, given the answers of its two finds: all_subscribers (line 63) and
\* filtered_subscribers (line 66).  Line 70 raises KeyError on an item
\* without 'service'; the list of line 90 goes with the loaded dict to
\* send_change_notification (line 101), whose answer the run does not return.
notify_subscribers(changes, all_subscribers, filtered_subscribers, configured, outcome) ==
    LET change_list == changes.value.changes
    IN  IF \E i \in 1..Len(change_list) : "service" \notin DOMAIN change_list[i]
        THEN Dispatched(FALSE, "KeyError", <<>>, NotSent)
        ELSE LET changed_services == { change_list[i].service : i \in 1..Len(change_list) }
                 dict == recipients_dict(all_subscribers, filtered_subscribers, changed_services)
                 list == recipients_list(all_subscribers, filtered_subscribers, changed_services)
             IN  IF list = <<>> THEN Dispatched(TRUE, NoneStr, dict, NotSent)
                 ELSE Dispatched(TRUE, NoneStr, dict,
                         send_change_notification(list, changes.value, configured, outcome))

\* send_notifications, lines 46-54: a failed db_config.connect returns False;
\* an exception of load_changes, and the AttributeError of .get on a
\* non-empty list, reach the except clause of line 110; with nothing to
\* notify about the run returns True before any find.
BeforeFinds(connected, loaded) ==
    IF ~connected THEN Dispatched(FALSE, NoneStr, <<>>, NotSent)
    ELSE IF loaded.error # NoneStr THEN Dispatched(FALSE, loaded.error, <<>>, NotSent)
    ELSE IF loaded.changes.type = "list" /\ loaded.changes.value # <<>>
    THEN Dispatched(FALSE, "AttributeError", <<>>, NotSent)
    ELSE Dispatched(TRUE, NoneStr, <<>>, NotSent)

\* Whether the run ends before its first find.
EndsBeforeFinds(connected, loaded) ==
    ~connected \/ loaded.error # NoneStr \/ loaded.changes.type = "list" \/ NothingToNotify(loaded.changes)

\* send_notifications, lines 37-117, run without interruption over the
\* content of the two files and the answers of the two finds.
send_notifications(connected, changes_file, summary_file, all_subscribers, filtered_subscribers, configured, outcome) ==
    LET loaded == load_changes(changes_file, summary_file)
    IN  IF EndsBeforeFinds(connected, loaded) THEN BeforeFinds(connected, loaded)
        ELSE notify_subscribers(loaded.changes, all_subscribers, filtered_subscribers,
                                configured, outcome)

\* What the transport does with every message of a run.
Transport(o) == [n \in 1..MaxRows |-> o]

\* python send_notifications.py, lines 46-63: the connection, load_changes,
\* the test of line 52, which ends the run before any store call, and else
\* the find of the active type-all documents.
DispatchReadAll(connected, changes_file, summary_file) ==
    LET loaded == load_changes(changes_file, summary_file)
    IN  /\ procs[Runner].pc = "idle"
        /\ IF EndsBeforeFinds(connected, loaded)
           THEN /\ out' = BeforeFinds(connected, loaded)
                /\ UNCHANGED procs
           ELSE /\ \E all_subscribers \in get_active_subscriptions(subs, "all") :
                      procs' = [procs EXCEPT ![Runner] =
                                   [pc |-> "filtered", existing |-> 0,
                                    data |-> [op |-> "dispatch", changes |-> loaded.changes,
                                              all_subscribers |-> all_subscribers]]]
                /\ UNCHANGED out
        /\ UNCHANGED <<subs, users, premium, nver, now, ticks, secret, wire>>

\* send_notifications, lines 66-108: the find of the active filtered
\* documents, the recipients collected from the answers of the two finds, and
\* the hand-over to the mail service.
DispatchReadFiltered(configured, outcome) ==
    LET d == procs[Runner].data
    IN  /\ procs[Runner].pc = "filtered"
        /\ \E filtered_subscribers \in get_active_subscriptions(subs, "filtered") :
              out' = notify_subscribers(d.changes, d.all_subscribers, filtered_subscribers,
                                        configured, outcome)
        /\ procs' = [procs EXCEPT ![Runner] = Idle]
        /\ UNCHANGED <<subs, users, premium, nver, now, ticks, secret, wire>>

\* The steps of a notification run that has begun, with a transport that
\* accepts every message when there is one.
DispatchSteps ==
    \E configured \in BOOLEAN : DispatchReadFiltered(configured, Transport("accepted"))

\* latest-changes.json with the items of a payload under 'changes'.
ChangesFile(change_list) == JsonDict([changes |-> change_list])

\* summary.json with a regional breakdown: two regions changed, one not.
RegionalSummary ==
    JsonDict([regional_changes |->
                 JsonDict([r \in {"eastus", "westus", "northeurope"} |->
                              IF r = "westus" THEN 0 ELSE 2])])

\* The content of summary.json in the runs: no file, not JSON, a dict
\* without the key, a dict with a breakdown.
DispatchSummaries ==
    { NoFile, Unreadable("JSONDecodeError"), JsonDict(<<>>), RegionalSummary }

\* The runs over the registry s whose two finds no write falls between, for
\* a payload of the items change_list and every content of summary.json.
Runs(s, change_list) ==
    { send_notifications(TRUE, ChangesFile(change_list), summary_file,
                         all_subscribers, filtered_subscribers,
                         TRUE, Transport("accepted")) :
        summary_file \in DispatchSummaries,
        all_subscribers \in get_active_subscriptions(s, "all"),
        filtered_subscribers \in get_active_subscriptions(s, "filtered") }

DispatchPayloads ==
    { AllPayload(<<"a">>) } \cup
    [email : {<<"a">>}, subscriptionType : {"filtered"},
     selectedServices : {<<>>, <<"Storage">>}, user_id : {<<>>}]

\* The content of latest-changes.json in the runs: no file, not JSON, not
\* UTF-8, a list, no items, one item naming Storage, one item that names no
\* service.
DispatchChanges ==
    { NoFile, Unreadable("JSONDecodeError"), Unreadable("UnicodeDecodeError"),
      JsonList(<<2, 0>>), ChangesFile(<<>>),
      ChangesFile(<<[service |-> "Storage", region |-> "eastus"]>>),
      ChangesFile(<<[region |-> "eastus"]>>) }

DispatchAuthUsers == { NoAuth, Identity(<<"a">>, <<"U">>, <<>>, "premium") }

NextDispatch ==
    \/ \E w \in Serial, data \in DispatchPayloads, auth_user \in DispatchAuthUsers :
            BeginCreate(w, data, auth_user)
    \/ \E w \in Serial : BeginCreate(w, AllPayload(<<"b">>), NoAuth)
    \/ PlanSteps(Serial)
    \/ CreateSteps(Serial)
    \/ \E w \in Serial, email \in {<<"a">>, <<"b">>}, token \in UnsubscribeTokens :
            FindActive(w, email, token, NoToken)
    \/ UnsubscribeSteps(Serial)
    \/ SetPremium(<<"a">>, "active", NoTime)
    \/ \E connected \in BOOLEAN, changes_file \in DispatchChanges,
          summary_file \in DispatchSummaries :
            DispatchReadAll(connected, changes_file, summary_file)
    \/ DispatchSteps

SpecDispatch == Init /\ [][NextDispatch]_vars

\* The services a payload names.
ServicesNamed(changes) ==
    { changes[i].service : i \in { j \in 1..Len(changes) : "service" \in DOMAIN changes[j] } }

\* The emails the claim makes recipients.
ExpectedRecipients(s, changes) ==
    { s[i].email : i \in { j \in 1..Len(s) :
        /\ s[j].status = "active"
        /\ \/ s[j].subscriptionType = "all"
           \/ /\ s[j].subscriptionType = "filtered"
              /\ \E k \in 1..Len(s[j].selectedServices) :
                     s[j].selectedServices[k] \in ServicesNamed(changes) } }

\* C20: for any change payload with at least one item and any registry
\* state, the recipient set of the notification run is exactly every email
\* with an active type-all subscription plus every email with an active
\* filtered subscription whose selection shares a service with the services
\* the payload names; an empty or non-overlapping selection and an
\* unsubscribed row make nobody a recipient.
C20_RecipientsAreAllPlusMatching ==
    \A changes \in ChangeLists \ {<<>>} :
        \A run \in Runs(subs, changes) :
            DOMAIN run.recipients = ExpectedRecipients(subs, changes)

\* What the run does achieve: the same equality for the payloads in which
\* every item names its service.
RecipientsWhenServicesNamed ==
    \A changes \in ChangeLists \ {<<>>} :
        (\A i \in 1..Len(changes) : "service" \in DOMAIN changes[i]) =>
            \A run \in Runs(subs, changes) :
                DOMAIN run.recipients = ExpectedRecipients(subs, changes)

\* The regional breakdown of summary.json reaches the mail: in a run with it
\* over a payload of one Storage item in eastus every type-all recipient is
\* told of the two regions the breakdown counts, every filtered recipient of
\* the one region of its items.
SummaryBreakdownIsCounted ==
    \A all_subscribers \in get_active_subscriptions(subs, "all"),
       filtered_subscribers \in get_active_subscriptions(subs, "filtered") :
        LET run == send_notifications(TRUE,
                       ChangesFile(<<[service |-> "Storage", region |-> "eastus"]>>),
                       RegionalSummary, all_subscribers, filtered_subscribers,
                       TRUE, Transport("accepted"))
            sends == run.mail.sends
        IN  \A k \in 1..Len(sends) :
                sends[k].stats.regions =
                    IF run.recipients[sends[k].email].subscriptionType = "all" THEN 2 ELSE 1

\* ---------------------------------------------------------------------------
\* The notification run over a registry written by overlapping requests
\* ---------------------------------------------------------------------------

RacePayloads ==
    { [email |-> <<"a">>, subscriptionType |-> "all", selectedServices |-> <<>>,
       user_id |-> <<>>],
      [email |-> <<"a">>, subscriptionType |-> "filtered",
       selectedServices |-> <<"Storage">>, user_id |-> <<>>] }

RaceAuthUsers == { Identity(<<"a">>, <<"U">>, <<>>, "premium") }

RaceChanges == { ChangesFile(<<[service |-> "Storage", region |-> "eastus"]>>) }

NextRace ==
    \/ \E w \in Workers, data \in RacePayloads, auth_user \in RaceAuthUsers :
            BeginCreate(w, data, auth_user)
    \/ PlanSteps(Workers)
    \/ CreateSteps(Workers)
    \/ \E w \in Serial : FindActive(w, <<"a">>, generate_unsubscribe_token(1), NoToken)
    \/ UnsubscribeSteps(Serial)
    \/ SetPremium(<<"a">>, "active", NoTime)
    \/ Tick(1)
    \/ \E changes_file \in RaceChanges, summary_file \in {NoFile, RegionalSummary} :
            DispatchReadAll(TRUE, changes_file, summary_file)
    \/ DispatchSteps

SpecRace == Init /\ [][NextRace]_vars

\* The active filtered rows of email e whose selection shares a service with
\* the payload.
MatchingRows(s, e, changes) ==
    { i \in 1..Len(s) :
        /\ s[i].email = e
        /\ s[i].status = "active"
        /\ s[i].subscriptionType = "filtered"
        /\ \E k \in 1..Len(s[i].selectedServices) :
               s[i].selectedServices[k] \in ServicesNamed(changes) }

\* A run in progress, whose type-all rows were read before the
\* writes that led to this registry: an email that has a matching filtered
\* row when the filtered rows are read gets the entry of such a row.
FilteredWinsAcrossWrites ==
    procs[Runner].pc = "filtered" =>
        LET d == procs[Runner].data
        IN  \A filtered_subscribers \in get_active_subscriptions(subs, "filtered") :
                LET run == notify_subscribers(d.changes, d.all_subscribers,
                                              filtered_subscribers,
                                              TRUE, Transport("accepted"))
                IN  \A e \in DOMAIN run.recipients :
                        MatchingRows(subs, e, d.changes.value.changes) # {} =>
                            \E i \in MatchingRows(subs, e, d.changes.value.changes) :
                                run.recipients[e] = RecipientFiltered(subs[i])

\* C21: when an email has an active type-all row and an active filtered row
\* that matches the payload, the recipient entry built for it carries the
\* filtered context, with the selection of a matching row, in whatever order
\* the store returns the rows; when no filtered row of the email matches, the
\* entry carries the all context.
C21_FilteredContextTakesPrecedence ==
    /\ \A changes \in ChangeLists :
           \A run \in Runs(subs, changes) :
               \A e \in DOMAIN run.recipients :
                   IF MatchingRows(subs, e, changes) # {}
                   THEN /\ run.recipients[e].subscriptionType = "filtered"
                        /\ \E i \in MatchingRows(subs, e, changes) :
                               run.recipients[e] = RecipientFiltered(subs[i])
                   ELSE run.recipients[e] = RecipientAll(e)
    /\ FilteredWinsAcrossWrites

\* "a" holds an active type-all row and an active filtered row, built at
\* different times, the filtered one first; a run over a payload naming
\* Storage has built the filtered entry for it and handed it to the mail
\* service, and a payload naming Compute gives the all entry.
C21_Witness ==
    /\ \E i, j \in 1..Len(subs) :
           /\ subs[i].status = "active" /\ subs[j].status = "active"
           /\ subs[i].email = <<"a">> /\ subs[j].email = <<"a">>
           /\ subs[i].subscriptionType = "filtered"
           /\ subs[i].selectedServices = <<"Storage">>
           /\ subs[j].subscriptionType = "all"
           /\ subs[i].created_at < subs[j].created_at
    /\ out.op = "send_notifications"
    /\ <<"a">> \in DOMAIN out.recipients
    /\ out.recipients[<<"a">>] =
           [email |-> <<"a">>, subscriptionType |-> "filtered",
            selectedServices |-> <<"Storage">>]
    /\ out.mail.op = "send_change_notification"
    /\ \A run \in Runs(subs, <<[service |-> "Compute", region |-> "westus"]>>) :
           run.recipients[<<"a">>] = RecipientAll(<<"a">>)

\* ---------------------------------------------------------------------------
\* SpecMail: the mail service over recipient lists and payloads of every kind
\* ---------------------------------------------------------------------------

MailItems ==
    { [service |-> "Storage", region |-> "eastus", added_count |-> 3],
      [service |-> "Compute", region |-> "westus", added_count |-> 1, removed_count |-> 2],
      [service |-> "Storage", region |-> "", added_prefixes |-> <<"p", "q">>, removed_count |-> 1],
      [region |-> "westus", removed_prefixes |-> <<"p">>] }

MailLists ==
    { <<c>> : c \in MailItems }
    \cup { <<[service |-> "Storage", region |-> "eastus", added_count |-> 3], c>> : c \in MailItems }

MailChanges ==
    { [changes |-> l] : l \in MailLists }
    \cup { [changes |-> l, regional_changes |-> m] :
               l \in MailLists,
               m \in { JsonDict(<<>>),
                       JsonDict([r \in {"eastus", "westus", "northeurope"} |->
                                    IF r = "westus" THEN 0 ELSE 2]),
                       JsonList(<<2, 0>>) } }

MailRecipients ==
    LET all_a == RecipientAll(<<"a">>)
        filtered_b(sel) == [email |-> <<"b">>, subscriptionType |-> "filtered",
                            selectedServices |-> sel]
    IN  { <<all_a>>, <<filtered_b(<<"Storage">>)>>, <<filtered_b(<<"Compute", "Storage">>)>>,
          <<all_a, filtered_b(<<"Storage">>)>>, <<filtered_b(<<"Compute">>), all_a>> }

\* send_notifications, line 101: the recipient list goes to the mail service
Notify(recipients, changes, configured, outcome) ==
    /\ out' = [send_change_notification(recipients, changes, configured, outcome)
                 EXCEPT !.op = "send_change_notification"]
                @@ [recipients |-> recipients, changes |-> changes, configured |-> configured]
    /\ UNCHANGED <<subs, users, premium, nver, now, ticks, procs, secret, wire>>

NextMail ==
    \E recipients \in MailRecipients, changes \in MailChanges, configured \in BOOLEAN :
        \E outcome \in [1..Len(recipients) -> {"accepted", "rejected", "raised"}] :
            Notify(recipients, changes, configured, outcome)

SpecMail == Init /\ [][NextMail]_vars

\* ---------------------------------------------------------------------------
\* Properties of the mail service
\* ---------------------------------------------------------------------------

RECURSIVE SumOver(_, _, _)
SumOver(change_list, I, removed) ==
    IF I = {} THEN 0
    ELSE LET i == CHOOSE x \in I : TRUE
         IN  (IF removed THEN RemovedOf(change_list[i]) ELSE AddedOf(change_list[i]))
             + SumOver(change_list, I \ {i}, removed)

\* The four values of the claim over the items with index in I.
StatsOver(change_list, I) ==
    Stats(Cardinality(I),
          Cardinality({ Get(change_list[i], "region", "") : i \in I } \ {""}),
          SumOver(change_list, I, FALSE),
          SumOver(change_list, I, TRUE))

ItemsIn(change_list, S) ==
    { i \in 1..Len(change_list) :
        "service" \in DOMAIN change_list[i]
        /\ change_list[i].service \in { S[k] : k \in 1..Len(S) } }

NonZeroRegions(m) == Cardinality({ r \in DOMAIN m : m[r] # 0 })

\* The payload supplies a regional breakdown: a mapping of regions to counts.
IsBreakdown(changes) ==
    "regional_changes" \in DOMAIN changes /\ changes.regional_changes.type = "dict"

\* The statistics every message of the last run carried are those of Claimed.
LastRunStats(Claimed(_, _)) ==
    out.op = "send_change_notification" =>
        \A i \in 1..Len(out.sends) :
            out.sends[i].stats = Claimed(out.changes, out.recipients[i].selectedServices)

ClaimedWheneverSupplied(changes, S) ==
    LET all == StatsOver(changes.changes, 1..Len(changes.changes))
    IN  IF S # <<>> THEN StatsOver(changes.changes, ItemsIn(changes.changes, S))
        ELSE IF IsBreakdown(changes)
        THEN [all EXCEPT !.regions = NonZeroRegions(changes.regional_changes.value)]
        ELSE all

ClaimedWhenNonEmpty(changes, S) ==
    LET all == StatsOver(changes.changes, 1..Len(changes.changes))
    IN  IF S # <<>> THEN StatsOver(changes.changes, ItemsIn(changes.changes, S))
        ELSE IF IsBreakdown(changes) /\ DOMAIN changes.regional_changes.value # {}
        THEN [all EXCEPT !.regions = NonZeroRegions(changes.regional_changes.value)]
        ELSE all

\* C22 as stated: for a selection S the statistics are the four values over
\* the items whose service is in S; for a type-all recipient they are the
\* four values over all items, with the region count taken from the regional
\* breakdown whenever one is supplied.
C22_StatsUseBreakdownWheneverSupplied == LastRunStats(ClaimedWheneverSupplied)

\* C22, amended: as above, with the region count of a type-all recipient
\* taken from the regional breakdown only when the breakdown supplied is not
\* empty; an empty breakdown counts as none and the regions of the items are
\* counted.
C22_StatsUseNonEmptyBreakdown == LastRunStats(ClaimedWhenNonEmpty)

\* The payload [{Storage, eastus, added 3}] has gone to a type-all recipient
\* and to a filtered recipient selecting Storage: both got (1, 1, 3, 0).
C22_Witness ==
    /\ out.op = "send_change_notification"
    /\ out.changes = [changes |-> <<[service |-> "Storage", region |-> "eastus", added_count |-> 3]>>]
    /\ Len(out.sends) = 2
    /\ out.recipients[1].subscriptionType = "all"
    /\ out.recipients[2].selectedServices = <<"Storage">>
    /\ \A i \in 1..2 : out.sends[i].stats = Stats(1, 1, 3, 0)

\* C23: in one run over a recipient list with a transport in place, a send
\* to every recipient is attempted, whatever the sends to the recipients
\* before it did (raised, or answered with a non-success status); the run
\* always returns, and it returns success exactly when the transport accepted
\* at least one message.
C23_EveryRecipientAttempted ==
    out.op = "send_change_notification" =>
        /\ out.returned \in BOOLEAN
        /\ out.returned <=> \E i \in 1..Len(out.sends) : out.sends[i].outcome = "accepted"
        /\ out.configured =>
               /\ Len(out.sends) = Len(out.recipients)
               /\ \A i \in 1..Len(out.recipients) : out.sends[i].email = out.recipients[i].email

\* The send to the first recipient raised and the second was still sent and
\* accepted; the run reports success.
C23_Witness ==
    /\ out.op = "send_change_notification"
    /\ Len(out.recipients) = 2
    /\ Len(out.sends) = 2
    /\ out.sends[1].outcome = "raised"
    /\ out.sends[2].outcome = "accepted"
    /\ out.returned

-----------------------------------------------------------------------------
(* SpecUnsub: two request handlers inside unsubscribe or                   *)
(* verify_and_unsubscribe at the same time.  The find_one and the          *)
(* update_one of a handler are two steps; the steps of the two handlers    *)
(* interleave freely, next to subscribe and request-unsubscribe requests.  *)

NextUnsub ==
    \/ \E w \in Workers, data \in SpecPayloads : BeginCreate(w, data, NoAuth)
    \/ CreateSteps(Workers)
    \/ \E w \in Workers, email \in RawEmails : FindForVerification(w, email)
    \/ \E w \in Workers : WriteVerification(w)
    \/ \E w \in Workers, n \in 1..2 :
            FindActive(w, <<"a">>, generate_unsubscribe_token(n), NoToken)
    \/ \E w \in Workers :
            FindActive(w, <<" ", "A">>, NoToken, generate_verification_token(1))
    \/ UnsubscribeSteps(Workers)

SpecUnsub == Init /\ [][NextUnsub]_vars

-----------------------------------------------------------------------------
(* SpecClock: the two unsubscribe paths under a clock.  Two handler         *)
(* instances serve subscribe, request-unsubscribe and unsubscribe requests  *)
(* for the address "a" at the same time, while time passes.                 *)

NextClock ==
    \/ \E w \in Workers, data \in SpecPayloads :
            NormEmail(data.email) = <<"a">> /\ BeginCreate(w, data, NoAuth)
    \/ CreateSteps(Workers)
    \/ \E w \in Workers : FindForVerification(w, <<" ", "A">>)
    \/ \E w \in Workers : WriteVerification(w)
    \/ \E w \in Workers : FindActive(w, <<"a">>, generate_unsubscribe_token(1), NoToken)
    \/ \E w \in Workers, verify \in VerificationTokens \ {NoToken} :
            FindActive(w, <<"a">>, NoToken, verify)
    \/ UnsubscribeSteps(Workers)
    \/ \E d \in {1, Minutes(VerificationMinutes)} : Tick(d)

SpecClock == Init /\ [][NextClock]_vars

-----------------------------------------------------------------------------
(* Properties of concurrent unsubscribes *)

\* C24: of two unsubscribe requests (by permanent token or by verification
\* token) that both found the same row active, exactly one reports success:
\* the update of a handler that reaches a row which is no longer active
\* reports failure, and the row is unsubscribed afterwards.
C24_OneUnsubscribeWins ==
    [][\A w \in Workers :
          (/\ procs[w].pc = "write"
           /\ procs'[w].pc \in {"succeeded", "failed"}
           /\ subs[procs[w].existing].status # "active")
          => (procs'[w].pc = "failed" /\ subs'[procs[w].existing].status = "unsubscribed")]_vars

\* Both handlers hold a success response for the same row and neither has
\* returned yet.
C24_BothSucceeded ==
    /\ procs[1].pc = "succeeded"
    /\ procs[2].pc = "succeeded"
    /\ procs[1].existing = procs[2].existing

-----------------------------------------------------------------------------
(* SpecSignup: signups against the user registry and the premium           *)
(* entitlements, which upgrades and set_premium_active write.              *)

NextSignup ==
    \/ \E w \in Workers, email \in RawEmails : BeginSignup(w, email, "pw1")
    \/ \E w \in Workers : BeginUpgrade(w, UpgradeLink(<<"b">>), "pw2", FALSE)
    \/ \E w \in Workers : MirrorPremium(w, FALSE)
    \/ PlanSteps(Workers)
    \/ \E email \in {<<"a">>, <<"b">>}, status \in PlanStatuses, expires_at \in {NoTime, Days(JWT_TTL_DAYS)} :
            SetPremium(email, status, expires_at)
    \/ Tick(1)

SpecSignup == Init /\ [][NextSignup]_vars

\* Handler instance w answers a signup in this step, and the session tokens
\* the step hands out.
SignupAnswers(w) ==
    /\ procs[w].pc \in {"plan", "plan_user"}
    /\ procs[w].data.op = "signup"
    /\ procs'[w].pc = "idle"

NewSessionTokens == { t \in wire' \ wire : t.by = "create_token" }

\* C25: the session token of a successful signup carries plan free and
\* plan_status inactive, whatever the user registry and the premium
\* entitlements hold.
C25_SignupTokenIsFree ==
    [][\A w \in Workers : SignupAnswers(w) =>
          \A t \in NewSessionTokens :
              /\ t.token.claims.plan = "free"
              /\ t.token.claims.plan_status = "inactive"]_vars

\* C25, amended: the session token of a successful signup carries what the
\* registry resolves for the email when the handler reads it: plan premium
\* and plan_status active when the premium entitlements hold an active record
\* for the email, and otherwise the plan and status of the user document,
\* which are free and inactive unless an upgrade has written it since.
C25_SignupTokenFollowsEntitlement ==
    [][\A w \in Workers : SignupAnswers(w) =>
          \A t \in NewSessionTokens :
              LET e == procs[w].data.email
              IN  /\ t.token.claims.email = e
                  /\ users[e].exists
                  /\ IF procs[w].pc = "plan"
                     THEN /\ premium[e].exists /\ premium[e].status = "active"
                          /\ t.token.claims.plan = "premium"
                          /\ t.token.claims.plan_status = "active"
                     ELSE /\ t.token.claims.plan = users[e].plan
                          /\ t.token.claims.plan_status = users[e].plan_status
                          /\ users[e].password_hash = hash_password("pw1") =>
                                 /\ t.token.claims.plan = "free"
                                 /\ t.token.claims.plan_status = "inactive"]_vars

\* A signup for an email that already had an active entitlement has issued
\* a premium token.
C25_Witness ==
    \E t \in wire :
        /\ t.by = "create_token"
        /\ t.token.claims.plan = "premium"
        /\ t.token.claims.plan_status = "active"
        /\ users[t.token.claims.email].password_hash = hash_password("pw1")

-----------------------------------------------------------------------------
(* Properties of the subscription lifecycle *)

\* Store t follows store s: the rows of s are still there with their id and
\* permanent token, a status changes only along a pair in allowed, and every
\* added row is active.
Follows(s, t, allowed) ==
    /\ Len(t) >= Len(s)
    /\ \A i \in 1..Len(s) :
          /\ t[i].id = s[i].id
          /\ t[i].unsubscribe_token = s[i].unsubscribe_token
          /\ t[i].status # s[i].status => <<s[i].status, t[i].status>> \in allowed
    /\ \A i \in (Len(s) + 1)..Len(t) : t[i].status = "active"

\* The lifecycle of the calls, each run without interruption from the state
\* the registry is in.
LifecycleOfCalls ==
    /\ \A data \in Payloads, auth_user \in AuthUsers :
          Follows(subs, create_subscription(subs, data, auth_user).store,
                  {<<"unsubscribed", "active">>})
    /\ \A email \in RawEmails, token \in UnsubscribeTokens :
          LET t == unsubscribe(subs, email, token).store
          IN  Follows(subs, t, {<<"active", "unsubscribed">>}) /\ Len(t) = Len(subs)
    /\ \A email \in RawEmails, token \in VerificationTokens :
          LET t == verify_and_unsubscribe(subs, email, token).store
          IN  Follows(subs, t, {<<"active", "unsubscribed">>}) /\ Len(t) = Len(subs)
    /\ \A email \in RawEmails :
          LET t == create_unsubscribe_verification(subs, email, nver + 1).store
          IN  Follows(subs, t, {}) /\ Len(t) = Len(subs)
    /\ \A i \in 1..Len(subs) :
          (subs[i].status = "unsubscribed" /\ ActiveRowsOf(subs, subs[i].email) = {}) =>
              LET r == create_subscription(subs,
                          [email |-> subs[i].email, subscriptionType |-> "all",
                           selectedServices |-> <<>>, user_id |-> <<>>], NoAuth)
              IN  /\ r.result.success
                  /\ r.result.reactivated
                  /\ Len(r.store) = Len(subs)
                  /\ ActiveRowsOf(r.store, subs[i].email) = {find_unsubscribed(subs, subs[i].email)}
                  /\ RowsOf(subs, subs[i].email) = {i} => r.store[i].status = "active"

\* C26: every store call of a handler, and every call as a whole, keeps to the
\* lifecycle: a create only adds active rows or turns an unsubscribed row
\* active; unsubscribe and verify_and_unsubscribe only turn an active row
\* unsubscribed and add none; a verification request changes no status; no
\* operation removes a row or changes its id or permanent token; and for
\* every email whose rows are all unsubscribed an unauthenticated type-all
\* create succeeds and makes its row active, the first of them when it has
\* several, adding none.
C26_LifecycleTransitions ==
    /\ []LifecycleOfCalls
    /\ [][Follows(subs, subs', {<<"unsubscribed", "active">>, <<"active", "unsubscribed">>})]_vars

\* A row has been unsubscribed through its verification link, and a type-all
\* create for its email brings it back.
C26_Witness ==
    \E i \in 1..Len(subs) :
        /\ subs[i].status = "unsubscribed"
        /\ subs[i].unsubscribe_method = "email_verification"
        /\ create_subscription(subs,
              [email |-> subs[i].email, subscriptionType |-> "all",
               selectedServices |-> <<>>, user_id |-> <<>>], NoAuth).store[i].status = "active"

\* What C27 expects of a create: the first rejection that applies, in the
\* order DuplicateEmail, AuthRequired, EmailMismatch, PremiumRequired,
\* MissingUserId, the last four for type filtered only; OK when none applies.
\* EmailMismatch applies whenever the identity's email is not the request's,
\* an empty email claim included; what create_subscription does with an
\* empty claim (line 83) is in identity_checks.
ClaimedFirstRejection(data, auth_user) ==
    LET e == NormEmail(data.email)
    IN  IF ActiveRowsOf(subs, e) # {} THEN "DUPLICATE_EMAIL"
        ELSE IF data.subscriptionType # "filtered" THEN "OK"
        ELSE IF ~auth_user.present THEN "AUTH_REQUIRED"
        ELSE IF NormEmail(auth_user.email) # e THEN "EMAIL_MISMATCH"
        ELSE IF ~ResolvesPremium(e) THEN "PREMIUM_REQUIRED"
        ELSE IF Strip(data.user_id) = <<>> /\ auth_user.sub = <<>> /\ auth_user.user_id = <<>>
        THEN "MISSING_USER_ID"
        ELSE "OK"

\* C27: a create answers with the first rejection that applies, and succeeds
\* when none does; so a type-all create without an identity for an email
\* with no active row succeeds.
C27_FirstRejectionReturned ==
    \A data \in Payloads, auth_user \in AuthUsers :
        LET r == create_subscription(subs, data, auth_user)
        IN  /\ r.result.code = ClaimedFirstRejection(data, auth_user)
            /\ r.result.success <=> r.result.code = "OK"

\* The same for the identities that carry an email claim, and for none.
RejectionOrderWithEmailClaim ==
    \A data \in Payloads, auth_user \in AuthUsers :
        (~auth_user.present \/ NormEmail(auth_user.email) # <<>>) =>
            LET r == create_subscription(subs, data, auth_user)
            IN  /\ r.result.code = ClaimedFirstRejection(data, auth_user)
                /\ r.result.success <=> r.result.code = "OK"

\* C28: a create that fails answers with one of DuplicateEmail,
\* AuthRequired, EmailMismatch, PremiumRequired, MissingUserId and returns the
\* store it was given: no row added, no field of any row changed.
C28_FailedCreateWritesNothing ==
    \A data \in Payloads, auth_user \in AuthUsers :
        LET r == create_subscription(subs, data, auth_user)
        IN  ~r.result.success =>
                /\ r.store = subs
                /\ r.result.code \in {"DUPLICATE_EMAIL", "AUTH_REQUIRED", "EMAIL_MISMATCH",
                                      "PREMIUM_REQUIRED", "MISSING_USER_ID"}

\* An email has two rows, both unsubscribed, and is premium, and a filtered
\* create for it fails for want of a user id.
C28_Witness ==
    \E i, j \in Rows, data \in Payloads :
        /\ i < j
        /\ subs[i].email = subs[j].email
        /\ subs[i].status = "unsubscribed"
        /\ subs[j].status = "unsubscribed"
        /\ NormEmail(data.email) = subs[i].email
        /\ create_subscription(subs, data, Identity(subs[i].email, <<>>, <<>>, "premium")).result.code
              = "MISSING_USER_ID"

\* C29: every active row of type filtered stores a non-empty user id, and a
\* filtered create that inserts a row for a request without a user_id stores
\* the id taken from the identity (its sub, else its user_id).
C29_FilteredRowsHaveOwner ==
    /\ \A i \in Rows :
          (subs[i].status = "active" /\ subs[i].subscriptionType = "filtered")
              => subs[i].user_id # <<>>
    /\ \A data \in Payloads, auth_user \in AuthUsers :
          LET r == create_subscription(subs, data, auth_user)
          IN  ( /\ data.subscriptionType = "filtered"
                /\ Strip(data.user_id) = <<>>
                /\ r.result.success
                /\ Len(r.store) = Len(subs) + 1 ) =>
                  r.store[Len(r.store)].user_id =
                      IF auth_user.sub # <<>> THEN auth_user.sub ELSE auth_user.user_id

\* An active filtered row stores no user id.
C29_FilteredRowWithoutOwner ==
    \E i \in Rows :
        /\ subs[i].status = "active"
        /\ subs[i].subscriptionType = "filtered"
        /\ subs[i].user_id = <<>>

\* What does hold: a filtered row that a create reactivates stores a
\* non-empty user id, the resolved one or the one it had.
ReactivatedFilteredRowHasOwner ==
    \A data \in Payloads, auth_user \in AuthUsers :
        LET r == create_subscription(subs, data, auth_user)
            i == find_unsubscribed(subs, NormEmail(data.email))
        IN  (data.subscriptionType = "filtered" /\ r.result.success /\ r.result.reactivated)
                => r.store[i].user_id # <<>>

-----------------------------------------------------------------------------
(* SpecStats: the registry under creates of any subscriptionType and       *)
(* unsubscribes, and the reporting script over it.  The script makes six   *)
(* calls on the store, a find and five counts, each a step of its own;     *)
(* the requests, all for the address "a", are served one at a time and     *)
(* their steps fall between the steps of the script.                       *)

\* The query of the n-th count_documents of get_statistics, lines 459-469.
StatisticsQuery(n, row) ==
    CASE n = 1 -> TRUE
      [] n = 2 -> row.status = "active"
      [] n = 3 -> row.status = "unsubscribed"
      [] n = 4 -> row.status = "active" /\ row.subscriptionType = "all"
      [] n = 5 -> row.status = "active" /\ row.subscriptionType = "filtered"

\* collection.count_documents(query), for the n-th query of get_statistics
count_documents(s, n) == Cardinality({ i \in 1..Len(s) : StatisticsQuery(n, s[i]) })

\* The dict get_statistics returns, lines 471-477, from its five counts.
StatisticsOf(counts) ==
    [total_subscriptions |-> counts[1],
     active_subscriptions |-> counts[2],
     unsubscribed |-> counts[3],
     all_changes_subscribers |-> counts[4],
     filtered_subscribers |-> counts[5]]

\* SubscriptionManager.get_statistics when no write falls between its five
\* count_documents; it writes nothing.
get_statistics(s) ==
    [store |-> s, result |-> StatisticsOf([n \in 1..5 |-> count_documents(s, n)])]

\* python view_subscriptions.py, lines 21-38: get_active_subscriptions()
\* without a filter, a find; the documents are printed.
ListSubscriptions ==
    /\ procs[Runner].pc = "idle"
    /\ \E listed \in get_active_subscriptions(subs, NoneStr) :
          procs' = [procs EXCEPT ![Runner] =
                       [pc |-> "count", existing |-> 0,
                        data |-> [op |-> "view", found |-> Len(listed), counts |-> <<>>]]]
    /\ UNCHANGED <<subs, users, premium, nver, now, ticks, tokenState>>

\* view_subscriptions.py, line 41 -> get_statistics, lines 459-469: the next
\* of the five count_documents; after the fifth the statistics are printed.
CountDocuments ==
    LET d == procs[Runner].data
        counts == Append(d.counts, count_documents(subs, Len(d.counts) + 1))
    IN  /\ procs[Runner].pc = "count"
        /\ IF Len(counts) < 5
           THEN /\ procs' = [procs EXCEPT ![Runner].data.counts = counts]
                /\ UNCHANGED out
           ELSE /\ procs' = [procs EXCEPT ![Runner] = Idle]
                /\ out' = [op |-> "get_statistics", found |-> d.found,
                           stats |-> StatisticsOf(counts)]
        /\ UNCHANGED <<subs, users, premium, nver, now, ticks, secret, wire>>

StatsPayloads ==
    [email : {<<"a">>}, subscriptionType : {"all", "weekly"},
     selectedServices : {<<>>}, user_id : {<<>>}]

NextStats ==
    \/ \E w \in Serial, data \in StatsPayloads : BeginCreate(w, data, NoAuth)
    \/ CreateSteps(Serial)
    \/ \E w \in Serial, token \in UnsubscribeTokens :
            FindActive(w, <<"a">>, token, NoToken)
    \/ UnsubscribeSteps(Serial)
    \/ ListSubscriptions
    \/ CountDocuments

SpecStats == Init /\ [][NextStats]_vars

\* C30: every stored row has type all or filtered and status active or
\* unsubscribed; the statistics of the registry satisfy total = active +
\* unsubscribed and active = all-type + filtered subscribers; and taking them
\* leaves the registry as it was.
C30_TypesAndCountsConsistent ==
    /\ \A i \in Rows :
          /\ subs[i].subscriptionType \in {"all", "filtered"}
          /\ subs[i].status \in {"active", "unsubscribed"}
    /\ LET r == get_statistics(subs)
       IN  /\ r.store = subs
           /\ r.result.total_subscriptions
                 = r.result.active_subscriptions + r.result.unsubscribed
           /\ r.result.active_subscriptions
                 = r.result.all_changes_subscribers + r.result.filtered_subscribers

\* The statistics last taken count an active subscriber that is neither an
\* all-type nor a filtered one.
C30_ActiveExceedsTypes ==
    /\ out.op = "get_statistics"
    /\ out.stats.active_subscriptions
          > out.stats.all_changes_subscribers + out.stats.filtered_subscribers

\* The statistics last printed do not add up: a write fell between two of
\* the five counts.
CountsTakenAcrossWrites ==
    /\ out.op = "get_statistics"
    /\ out.stats.total_subscriptions
          # out.stats.active_subscriptions + out.stats.unsubscribed

\* What does hold: the statuses are the two, taking the statistics writes
\* nothing, and total = active + unsubscribed when no write falls between
\* the five counts.
StatusCountsConsistent ==
    /\ \A i \in Rows : subs[i].status \in {"active", "unsubscribed"}
    /\ LET r == get_statistics(subs)
       IN  /\ r.store = subs
           /\ r.result.total_subscriptions
                 = r.result.active_subscriptions + r.result.unsubscribed

-----------------------------------------------------------------------------
(* SpecFault: the user registry when a call on the store can raise.  An    *)
(* upgrade makes two calls, one on the users collection and one on the     *)
(* premium collection, inside one try block.                               *)

\* UserManager.upsert_premium_with_password when its n-th call on the store
\* raises: the calls before it have been applied, the except clause returns
\* the failure.
upsert_premium_store_raises(email, password, n) ==
    LET done == upsert_premium_with_password(email, password)
    IN  IF ~done.ok THEN done
        ELSE [ok |-> FALSE, error |-> "store error",
              users |-> IF n > 1 THEN done.users ELSE users,
              premium |-> premium]

NextFault ==
    \/ \E w \in Workers, email \in UserEmails, password \in UserPasswords :
            BeginSignup(w, email, password)
    \/ \E w \in Workers, email \in UserEmails, password \in UserPasswords, raised \in BOOLEAN :
            BeginUpgrade(w, UpgradeLink(email), password, raised)
    \/ \E w \in Workers, raised \in BOOLEAN : MirrorPremium(w, raised)
    \/ PlanSteps(Workers)
    \/ \E email \in UserEmails, status \in PlanStatuses : SetPremium(email, status, NoTime)

SpecFault == Init /\ [][NextFault]_vars

\* C31: an upgrade that returns a failure because a call on the store raised,
\* at the first call or at the second, leaves the user records and the
\* premium entitlements as they were.
C31_FailedUpgradeChangesNothing ==
    \A email \in UserEmails, password \in UserPasswords, n \in 1..2 :
        LET r == upsert_premium_store_raises(email, password, n)
        IN  ~r.ok => (r.users = users /\ r.premium = premium)

\* No request is being served, and a user record says premium and holds a
\* password while the email has no entitlement record: what an upgrade
\* leaves when its second call raises.
C31_UserUpgradedWithoutEntitlement ==
    /\ \A w \in Workers : procs[w] = Idle
    /\ \E e \in NormEmails :
          /\ users[e].exists
          /\ users[e].plan = "premium"
          /\ ~premium[e].exists

\* What does hold: a failure at the first call, and a rejected argument,
\* change nothing.
FailedFirstCallChangesNothing ==
    \A email \in UserEmails, password \in UserPasswords :
        LET r == upsert_premium_store_raises(email, password, 1)
        IN  ~r.ok /\ r.users = users /\ r.premium = premium

-----------------------------------------------------------------------------
(* Properties of the notification run on payloads without service names *)

\* C32: for every payload with at least one item, items without a service
\* name included, the notification run raises nothing and every email with
\* an active type-all row is among its recipients.
C32_RunSurvivesUnnamedItems ==
    \A changes \in ChangeLists \ {<<>>} :
        \A run \in Runs(subs, changes) :
            /\ ~run.raised
            /\ run.returned
            /\ \A i \in Rows :
                  (subs[i].status = "active" /\ subs[i].subscriptionType = "all")
                      => subs[i].email \in DOMAIN run.recipients

\* The last run raised and collected nobody while the registry holds an
\* active type-all row.
C32_RunRaisedWithSubscribers ==
    /\ out.op = "send_notifications"
    /\ out.error = "KeyError"
    /\ ~out.returned
    /\ DOMAIN out.recipients = {}
    /\ out.mail = NotSent
    /\ \E i \in Rows : subs[i].status = "active" /\ subs[i].subscriptionType = "all"

-----------------------------------------------------------------------------
(* Properties of the rows of one email *)

\* C33: with requests served one at a time every stored email is trimmed and
\* lower-cased and has one row at most, active or unsubscribed; so a create
\* for any spelling of an email that has an unsubscribed row reactivates that
\* one row and adds none.
C33_OneRowPerEmail ==
    /\ \A i, j \in Rows : subs[i].email = subs[j].email => i = j
    /\ \A i \in Rows : subs[i].email = NormEmail(subs[i].email)
    /\ \A email \in RawEmails :
          LET r == create_subscription(subs,
                      [email |-> email, subscriptionType |-> "all",
                       selectedServices |-> <<>>, user_id |-> <<>>], NoAuth)
          IN  /\ RowsOf(subs, NormEmail(email)) # {} => Len(r.store) = Len(subs)
              /\ \A i, j \in 1..Len(r.store) : r.store[i].email = r.store[j].email => i = j

\* The row of "a" is unsubscribed, another email has a row, and a create
\* for " A" brings the row of "a" back without adding one.
C33_Witness ==
    \E i, j \in Rows :
        /\ subs[i].email = <<"a">>
        /\ subs[i].status = "unsubscribed"
        /\ subs[j].email = <<"b">>
        /\ LET r == create_subscription(subs,
                      [email |-> <<" ", "A">>, subscriptionType |-> "all",
                       selectedServices |-> <<>>, user_id |-> <<>>], NoAuth)
           IN  /\ r.result.reactivated
               /\ Len(r.store) = Len(subs)
               /\ r.store[i].status = "active"

-----------------------------------------------------------------------------
(* Properties of the two token kinds *)

\* C34: a token create_action_token issued, for any purpose and with any
\* extra claims, is never accepted by verify_token, and a token create_token
\* issued is never accepted by verify_action_token for any purpose.
C34_TokenKindsNotInterchangeable ==
    \A w \in wire :
        /\ w.by = "create_action_token" => verify_token(w.token, now).payload = NoClaims
        /\ w.by = "create_token" =>
              \A B \in Purposes : verify_action_token(w.token, B, now).payload = NoClaims

\* An action token for the purpose upgrade is on its way, some time after
\* it was issued, and verify_token answers with its claims.
C34_ActionTokenOpensSession ==
    \E w \in wire :
        /\ w.by = "create_action_token"
        /\ w.token.claims.purpose = "upgrade"
        /\ w.issued < now
        /\ verify_token(w.token, now).payload = w.token.claims
        /\ verify_token(w.token, now).payload.email = <<"a">>

\* What does hold: no session token passes for an action token.
SessionTokenIsNoActionToken ==
    \A w \in wire :
        w.by = "create_token" =>
            \A B \in Purposes : verify_action_token(w.token, B, now).payload = NoClaims

-----------------------------------------------------------------------------
(* Properties of a used upgrade link *)

\* C35: once /upgrade_confirm has succeeded with a token, the same token
\* presented again, at the same time and so before its expiry, is refused
\* and changes no user record, whatever password comes with it.
C35_UpgradeLinkSingleUse ==
    [][\A token \in ConfirmTokens, password \in ConfirmPasswords :
          LET r == upgrade_confirm_do_POST(token, password, now)
          IN  (r.status = 200 /\ users' = r.users /\ premium' = r.premium /\ now' = now)
                  => \A again \in {"pw1", "pw2"} :
                        /\ upgrade_confirm_do_POST(token, again, now)'.status = 400
                        /\ upgrade_confirm_do_POST(token, again, now)'.users = users']_vars

\* The user of an upgrade link has been upgraded with the password pw2, and
\* the link, presented again with pw1, is accepted and replaces the password.
C35_UsedLinkAcceptedAgain ==
    \E w \in wire :
        LET e == w.token.claims.email
            r == upgrade_confirm_do_POST(w.token, "pw1", now)
        IN  /\ w.by = "create_action_token"
            /\ e \in NormEmails
            /\ users[e] = PremiumUser("pw2")
            /\ r.status = 200
            /\ r.users[e] = PremiumUser("pw1")

-----------------------------------------------------------------------------
(* Properties of a verification token across unsubscribe and reactivation *)

\* C36: only active rows carry a pending verification token and expiry, and
\* a verification token that a row held when it was unsubscribed, by either
\* path, is refused by verify_and_unsubscribe once the row is active again.
C36_NoTokenSurvivesUnsubscribe ==
    \A i \in Rows :
        subs[i].status = "unsubscribed" =>
            /\ subs[i].unsubscribe_verification_token = NoToken
            /\ subs[i].verification_token_expiry = NoTime
            /\ \A token \in VerificationTokens \ {NoToken} :
                  LET again == create_subscription(subs, AllPayload(subs[i].email), NoAuth).store
                  IN  ~verify_and_unsubscribe(again, subs[i].email, token).result.success

\* A row unsubscribed with its permanent token still carries the
\* verification token requested before; after a create for its email that
\* token unsubscribes it.
C36_OldTokenStillUnsubscribes ==
    \E i \in Rows :
        LET again == create_subscription(subs, AllPayload(subs[i].email), NoAuth).store
            token == subs[i].unsubscribe_verification_token
        IN  /\ subs[i].status = "unsubscribed"
            /\ subs[i].unsubscribe_method = "none"
            /\ token # NoToken
            /\ again[i].status = "active"
            /\ again[i].unsubscribe_verification_token = token
            /\ verify_and_unsubscribe(again, subs[i].email, token).result.success

\* What does hold: a row unsubscribed through verify_and_unsubscribe carries
\* no verification token, and none of the tokens handed out unsubscribes it
\* after a reactivation.
VerifiedUnsubscribeClearsToken ==
    \A i \in Rows :
        (subs[i].status = "unsubscribed" /\ subs[i].unsubscribe_method = "email_verification") =>
            /\ subs[i].unsubscribe_verification_token = NoToken
            /\ \A token \in VerificationTokens \ {NoToken} :
                  LET again == create_subscription(subs, AllPayload(subs[i].email), NoAuth).store
                  IN  ~verify_and_unsubscribe(again, subs[i].email, token).result.success

-----------------------------------------------------------------------------
(* Properties of a switched-off entitlement *)

\* C37: while the entitlement record of an email, as set_premium_active last
\* wrote it, has a status other than active, the plan of the email does not
\* resolve to premium/active, and a filtered create for the email, which has
\* no active row, by an identity of that email is answered PREMIUM_REQUIRED.
C37_InactiveEntitlementRevokes ==
    \A e \in NormEmails :
        (premium[e].exists /\ premium[e].status # "active") =>
            /\ ~ResolvesPremium(e)
            /\ ActiveRowsOf(subs, e) = {} =>
                  \A data \in Payloads :
                      (data.subscriptionType = "filtered" /\ NormEmail(data.email) = e) =>
                          create_subscription(subs, data, Identity(e, <<"U">>, <<>>, "premium")).result.code
                              = "PREMIUM_REQUIRED"

\* The user was upgraded, the entitlement was switched off afterwards, and
\* a filtered create for the email succeeds.
C37_RevokedUserStillPremium ==
    \E e \in NormEmails, data \in Payloads :
        /\ users[e].exists /\ users[e].plan = "premium"
        /\ premium[e].exists /\ premium[e].status = "inactive"
        /\ data.subscriptionType = "filtered" /\ NormEmail(data.email) = e
        /\ ResolvesPremium(e)
        /\ create_subscription(subs, data, Identity(e, <<"U">>, <<>>, "premium")).result.success

\* What does hold: the same for the emails whose user record, if any, was
\* never upgraded.
InactiveEntitlementOfFreeUser ==
    \A e \in NormEmails :
        (premium[e].exists /\ premium[e].status # "active" /\ users[e].plan # "premium") =>
            ~ResolvesPremium(e)

-----------------------------------------------------------------------------
(* The recipient list handed to the mail service *)

\* A run in progress, whose two reads a write may fall between:
\* the mail service makes one send per email.
OneSendPerEmailAcrossWrites ==
    procs[Runner].pc = "filtered" =>
        LET d == procs[Runner].data
        IN  \A filtered_subscribers \in get_active_subscriptions(subs, "filtered") :
                LET sends == notify_subscribers(d.changes, d.all_subscribers,
                                                filtered_subscribers,
                                                TRUE, Transport("accepted")).mail.sends
                IN  \A i, j \in 1..Len(sends) : sends[i].email = sends[j].email => i = j

\* C38: in the recipient list of a run no email appears twice, and the mail
\* service, handed that list, sends one message per entry, so no email is
\* sent two; this whatever number of active rows the email has and whatever
\* order the store returns them in.
C38_OneNotificationPerEmail ==
    /\ \A changes \in ChangeLists, summary_file \in {NoFile, RegionalSummary} :
           \A all_subscribers \in get_active_subscriptions(subs, "all"),
              filtered_subscribers \in get_active_subscriptions(subs, "filtered") :
               LET run == send_notifications(TRUE, ChangesFile(changes), summary_file,
                                             all_subscribers, filtered_subscribers,
                                             TRUE, Transport("accepted"))
                   list == recipients_list(all_subscribers, filtered_subscribers,
                                           ServicesNamed(changes))
                   sends == run.mail.sends
               IN  /\ \A i, j \in 1..Len(sends) : sends[i].email = sends[j].email => i = j
                   /\ (~run.raised /\ changes # <<>>) =>
                          /\ \A i, j \in 1..Len(list) : list[i].email = list[j].email => i = j
                          /\ { list[i].email : i \in 1..Len(list) } = DOMAIN run.recipients
                          /\ Len(sends) = Len(list)
                          /\ \A i \in 1..Len(list) : sends[i].email = list[i].email
    /\ OneSendPerEmailAcrossWrites

\* "a" has two active rows, one of type all and one filtered on Storage; a
\* run over a payload naming Storage has collected one entry for it and the
\* mail service has made one send.
C38_Witness ==
    /\ \E i, j \in Rows :
          /\ i # j
          /\ subs[i].email = <<"a">> /\ subs[j].email = <<"a">>
          /\ subs[i].status = "active" /\ subs[j].status = "active"
          /\ subs[i].subscriptionType = "all"
          /\ subs[j].selectedServices = <<"Storage">>
    /\ \A run \in Runs(subs, <<[service |-> "Storage", region |-> "eastus"]>>) :
          Len(run.mail.sends) = 1
    /\ out.op = "send_notifications"
    /\ DOMAIN out.recipients = {<<"a">>}
    /\ Len(out.mail.sends) = 1
    /\ out.mail.sends[1].email = <<"a">>

-----------------------------------------------------------------------------
(* Properties of the extra claims of an action token *)

\* The claims create_action_token sets itself.
ReservedClaims == {"sub", "email", "purpose", "iat", "exp"}

\* An action token carries the claims of its request: email and sub the
\* trimmed, lower-cased email, the purpose asked for, exp = iat + lifetime;
\* and before its expiry it verifies under that purpose with these claims.
CarriesItsRequest(w) ==
    LET c == w.token.claims
    IN  /\ c.email = <<"a">>
        /\ c.sub = <<"a">>
        /\ c.purpose = w.purpose
        /\ c.iat = Seconds(w.issued)
        /\ c.exp * TicksPerSecond = c.iat * TicksPerSecond + w.ttl
        /\ now < c.exp * TicksPerSecond =>
              verify_action_token(w.token, w.purpose, now).payload = c

\* C39: every action token, whatever extra claims its request carried,
\* carries the email, subject, purpose, issue time and expiry of its request
\* and verifies under the purpose asked for until it expires.
C39_ExtraClaimsOnlyAdd ==
    \A w \in wire : w.by = "create_action_token" => CarriesItsRequest(w)

\* A token asked for with purpose upgrade and the extra claim purpose =
\* signup is refused for upgrade and accepted for signup.
C39_ExtraReplacedPurpose ==
    \E w \in wire :
        /\ w.by = "create_action_token"
        /\ w.purpose = "upgrade"
        /\ w.token.claims.purpose = "signup"
        /\ verify_action_token(w.token, "upgrade", now).payload = NoClaims
        /\ verify_action_token(w.token, "signup", now).payload = w.token.claims

\* What does hold: the same for the tokens whose extra claims name none of
\* the claims the service sets.
ExtraClaimsOutsideReserved ==
    \A w \in wire :
        (w.by = "create_action_token" /\ w.overrides \cap ReservedClaims = {})
            => CarriesItsRequest(w)

=============================================================================
